---- MODULE Spec2Model ----
(***************************************************************************)
(* Model of sphaira's storage abstraction (source/fs.cpp) and streaming    *)
(* hash engine (source/hasher.cpp).                                        *)
(*                                                                         *)
(* A path is the sequence of its characters, so that the prefix test of    *)
(* is_read_only_root and the equality test of is_read_only_file are the    *)
(* character-level tests the code performs.  The SD card is one store `sd` *)
(* that both backends (the native service and stdio) operate on.           *)
(***************************************************************************)
EXTENDS Integers, Sequences, FiniteSets, TLC

VARIABLES
    sd,     \* the SD card: path -> entry
    last,   \* the storage-abstraction call that ran last (its arguments)
    rc,     \* the Result that call returned
    io,     \* the backend calls that call issued, in order
    out,    \* what that call handed back: bytes read, entries, a count
    ncalls, \* the number of calls made so far, where a specification caps it
    hash,   \* the hash computation in progress: Hash's locals and its position
    hnd     \* the File or Dir object in use, and the closes and commits made for it

fsvars == <<sd, last, rc, io, out>>

vars == <<sd, last, rc, io, out, ncalls, hash, hnd>>

----------------------------------------------------------------------------
(* Bounds of the model *)

\* longest file contents written or created
MaxLen == 2

\* bytes the transfer loop pulls per chunk
MaxChunk == 1

\* value range of a byte: 0 .. MaxByte
MaxByte == 1

----------------------------------------------------------------------------
(* fs.cpp:28-67, the two deny lists *)

READONLY_ROOT_FOLDERS ==
  <<<<"/","a","t","m","o","s","p","h","e","r","e","/","a","u","t","o","m","a","t","i","c","_","b","a","c","k","u","p","s">>,
     <<"/","b","o","o","t","l","o","a","d","e","r","/","r","e","s">>,
     <<"/","b","o","o","t","l","o","a","d","e","r","/","s","y","s">>,
     <<"/","b","a","c","k","u","p">>,
     <<"/","N","i","n","t","e","n","d","o">>,
     <<"/","N","i","n","t","e","n","d","o","/","C","o","n","t","e","n","t","s">>,
     <<"/","N","i","n","t","e","n","d","o","/","s","a","v","e">>,
     <<"/","e","m","u","M","M","C">>,
     <<"/","w","a","r","m","b","o","o","t","_","m","a","r","i","k","o">> >>
READONLY_FILES ==
  <<<<"/">>,
     <<"/","a","t","m","o","s","p","h","e","r","e">>,
     <<"/","a","t","m","o","s","p","h","e","r","e","/","h","b","l",".","n","s","p">>,
     <<"/","a","t","m","o","s","p","h","e","r","e","/","p","a","c","k","a","g","e","3">>,
     <<"/","a","t","m","o","s","p","h","e","r","e","/","r","e","b","o","o","t","_","p","a","y","l","o","a","d",".","b","i","n">>,
     <<"/","a","t","m","o","s","p","h","e","r","e","/","s","t","r","a","t","o","s","p","h","e","r","e",".","r","o","m","f","s">>,
     <<"/","b","o","o","t","l","o","a","d","e","r">>,
     <<"/","b","o","o","t","l","o","a","d","e","r","/","h","e","k","a","t","e","_","i","p","l",".","i","n","i">>,
     <<"/","s","w","i","t","c","h">>,
     <<"/","h","b","m","e","n","u",".","n","r","o">>,
     <<"/","p","a","y","l","o","a","d",".","b","i","n">>,
     <<"/","b","o","o","t",".","d","a","t">>,
     <<"/","l","i","c","e","n","s","e",".","d","a","t">>,
     <<"/","s","w","i","t","c","h","/","p","r","o","d",".","k","e","y","s">>,
     <<"/","s","w","i","t","c","h","/","t","i","t","l","e",".","k","e","y","s">>,
     <<"/","s","w","i","t","c","h","/","r","e","b","o","o","t","_","t","o","_","p","a","y","l","o","a","d",".","n","r","o">> >>

(* The paths the model calls the operations with *)

P_root == <<"/">>
P_backup == <<"/","b","a","c","k","u","p">>
P_backup_s == <<"/","b","a","c","k","u","p","/","s">>
P_backupx == <<"/","b","a","c","k","u","p","x">>
P_switch == <<"/","s","w","i","t","c","h">>
P_prodkeys == <<"/","s","w","i","t","c","h","/","p","r","o","d",".","k","e","y","s">>
P_switch_app == <<"/","s","w","i","t","c","h","/","a","p","p">>
P_hbmenu == <<"/","h","b","m","e","n","u",".","n","r","o">>
P_a == <<"/","a">>
P_a_b == <<"/","a","/","b">>
P_a_b_c == <<"/","a","/","b","/","c">>
P_a_f == <<"/","a","/","f">>
P_a_b_g == <<"/","a","/","b","/","g">>

\* a relative name with no separator, and the empty path
P_noslash == <<"x">>

PolicyPaths ==
    {P_root, P_backup, P_backup_s, P_backupx, P_switch, P_prodkeys,
     P_switch_app, P_hbmenu, P_a}

TreePaths == {P_a, P_a_b, P_a_b_c, P_a_f, P_a_b_g}

PATHS == PolicyPaths \cup TreePaths

Bytes == 0..MaxByte

RECURSIVE SeqsUpTo(_, _)
SeqsUpTo(S, n) ==
    IF n = 0 THEN {<<>>}
    ELSE LET r == SeqsUpTo(S, n - 1)
         IN  r \cup {Append(s, x) : s \in {t \in r : Len(t) = n - 1}, x \in S}

Contents == SeqsUpTo(Bytes, MaxLen)

Backends == {"native", "stdio"}

----------------------------------------------------------------------------
(* Result codes *)

R_OK == "OK"
Result_FsReadOnly == "Result_FsReadOnly"
FsError_PathAlreadyExists == "FsError_PathAlreadyExists"
\* any other failure code of the native service (PathNotFound, ...)
FsError_Other == "FsError_Other"
\* a failed stdio call: fsdevGetLastResult() or Result_FsUnknownStdioError
Result_FsUnknownStdioError == "Result_FsUnknownStdioError"
Result_FsNotActive == "Result_FsNotActive"
\* not a Result: the call has undefined behaviour, as when it passes the null
\* m_stdio of a handle whose fopen / opendir failed to the C library
UndefinedBehaviour == "UB"

\* what a call with undefined behaviour can end in
UB_Outcomes == {"Crash", Result_FsUnknownStdioError, R_OK}

\* R_UNLESS(bytes_read == out.size(), 1)
Result_ShortRead == "0x1"

R_SUCCEEDED(r) == r = R_OK
R_FAILED(r) == r # R_OK

----------------------------------------------------------------------------
(* String helpers *)

starts_with(s, p) == Len(p) <= Len(s) /\ SubSeq(s, 1, Len(p)) = p

\* index of the first / last occurrence of character c in s, 0 when absent
strchr(s, c) ==
    IF \E i \in 1..Len(s) : s[i] = c
    THEN CHOOSE i \in 1..Len(s) : s[i] = c /\ \A j \in 1..(i - 1) : s[j] # c
    ELSE 0

strrchr(s, c) ==
    IF \E i \in 1..Len(s) : s[i] = c
    THEN CHOOSE i \in 1..Len(s) : s[i] = c /\ \A j \in (i + 1)..Len(s) : s[j] # c
    ELSE 0

\* std::views::split(s, '/'): the segments between separators, empty ones included
RECURSIVE split(_)
split(s) ==
    LET i == strchr(s, "/")
    IN  IF i = 0 THEN <<s>>
        ELSE <<SubSeq(s, 1, i - 1)>> \o split(SubSeq(s, i + 1, Len(s)))

----------------------------------------------------------------------------
(* PathPolicy, fs.cpp:69-97 *)

is_read_only_root(path) ==
    \E i \in DOMAIN READONLY_ROOT_FOLDERS : starts_with(path, READONLY_ROOT_FOLDERS[i])

\* is_read_only_file with the prefix test of is_read_only_root
is_read_only_file_prefix(path) ==
    \E i \in DOMAIN READONLY_FILES : starts_with(path, READONLY_FILES[i])

is_read_only_file(path) ==
    \E i \in DOMAIN READONLY_FILES : path = READONLY_FILES[i]

\* is_read_only that consults the list of folders only
is_read_only_rootsOnly(path) ==
    IF is_read_only_root(path) THEN TRUE
    ELSE FALSE

is_read_only(path) ==
    IF is_read_only_root(path) THEN TRUE
    ELSE IF is_read_only_file(path) THEN TRUE
    ELSE FALSE

----------------------------------------------------------------------------
(* The store and the backend primitives the code calls.  Both backends end *)
(* in the same SD-card file system.  `bad` is the set of paths on which a  *)
(* backend call fails with an I/O error during the modelled call.          *)

NoEnt == [kind |-> "none", data |-> <<>>, mtime |-> 0]
DirEnt == [kind |-> "dir", data |-> <<>>, mtime |-> 0]
FileEnt(d) == [kind |-> "file", data |-> d, mtime |-> 0]

Parent(p) ==
    LET i == strrchr(p, "/")
    IN  IF i <= 1 THEN P_root ELSE SubSeq(p, 1, i - 1)

Known(fs, p) == p \in DOMAIN fs
Exists(fs, p) == Known(fs, p) /\ fs[p].kind # "none"
IsDir(fs, p) == Known(fs, p) /\ fs[p].kind = "dir"
IsFile(fs, p) == Known(fs, p) /\ fs[p].kind = "file"

Children(fs, p) == {q \in DOMAIN fs : q # p /\ fs[q].kind # "none" /\ Parent(q) = p}

\* p itself and everything below it
Subtree(fs, p) ==
    {q \in DOMAIN fs : fs[q].kind # "none" /\
        (q = p \/ (p = P_root) \/ starts_with(q, p \o <<"/">>))}

Resize(d, n) == [i \in 1..n |-> IF i <= Len(d) THEN d[i] ELSE 0]

Env(st, fs) == [st |-> st, fs |-> fs]

\* creating an entry at p: "exists", "fail" (no parent directory, I/O error) or "ok"
CanCreate(fs, p, bad) ==
    IF p \in bad \/ ~Known(fs, p) THEN "fail"
    ELSE IF Exists(fs, p) THEN "exists"
    ELSE IF ~IsDir(fs, Parent(p)) THEN "fail"
    ELSE "ok"

\* mkdir(2) and fsFsCreateDirectory
mkdir(fs, p, bad) ==
    LET st == CanCreate(fs, p, bad)
    IN  Env(st, IF st = "ok" THEN [fs EXCEPT ![p] = DirEnt] ELSE fs)

\* fsFsCreateFile: a new file of `size` bytes
fsFsCreateFile(fs, p, size, bad) ==
    LET st == CanCreate(fs, p, bad)
    IN  Env(st, IF st = "ok" THEN [fs EXCEPT ![p] = FileEnt(Resize(<<>>, size))] ELSE fs)

\* open(path, O_WRONLY | O_CREAT): opens an existing file as it is, creates a
\* missing one empty; without O_EXCL it never reports EEXIST
open_creat(fs, p, bad) ==
    IF p \in bad \/ ~Known(fs, p) \/ IsDir(fs, p) THEN Env("fail", fs)
    ELSE IF IsFile(fs, p) THEN Env("ok", fs)
    ELSE IF ~IsDir(fs, Parent(p)) THEN Env("fail", fs)
    ELSE Env("ok", [fs EXCEPT ![p] = FileEnt(<<>>)])

\* ftruncate / fsFileSetSize on an open file
ftruncate(fs, p, n) == [fs EXCEPT ![p].data = Resize(@, n)]

\* unlink(2) and fsFsDeleteFile
unlink(fs, p, bad) ==
    IF p \notin bad /\ IsFile(fs, p)
    THEN Env("ok", [fs EXCEPT ![p] = NoEnt])
    ELSE Env("fail", fs)

\* rmdir(2) and fsFsDeleteDirectory: only an empty directory, never the root
rmdir(fs, p, bad) ==
    IF p \notin bad /\ IsDir(fs, p) /\ p # P_root /\ Children(fs, p) = {}
    THEN Env("ok", [fs EXCEPT ![p] = NoEnt])
    ELSE Env("fail", fs)

\* fsFsDeleteDirectoryRecursively: the directory and everything below it
fsFsDeleteDirectoryRecursively(fs, p, bad) ==
    IF p \notin bad /\ IsDir(fs, p) /\ p # P_root
    THEN Env("ok", [q \in DOMAIN fs |-> IF q \in Subtree(fs, p) THEN NoEnt ELSE fs[q]])
    ELSE Env("fail", fs)

----------------------------------------------------------------------------
(* What an operation of the storage abstraction yields: its Result, the    *)
(* store after it and the backend calls it issued                          *)

Res(r, fs, calls) == [rc |-> r, fs |-> fs, io |-> calls]

IoCall(name, p, st) == <<name, p, st>>

\* the Result of a native-service call
NativeRc(st) ==
    IF st = "ok" THEN R_OK
    ELSE IF st = "exists" THEN FsError_PathAlreadyExists
    ELSE FsError_Other

----------------------------------------------------------------------------
(* Create operations, fs.cpp:178-261 (native) and fs.cpp:376-421 (stdio) *)

\* CreateFile (native) consulting the exact-match list instead of the prefixes
CreateFile_native_exactOnly(fs, path, size, ignore_read_only, bad) ==
    IF ~(ignore_read_only \/ ~is_read_only_file(path))
    THEN Res(Result_FsReadOnly, fs, <<>>)
    ELSE LET r == fsFsCreateFile(fs, path, size, bad)
         IN  IF r.st # "ok"
             THEN Res(NativeRc(r.st), fs, <<IoCall("fsFsCreateFile", path, r.st)>>)
             ELSE Res(R_OK, r.fs, <<IoCall("fsFsCreateFile", path, "ok"),
                                    IoCall("fsFsCommit", <<>>, "ok")>>)

\* fs.cpp:178-189
CreateFile_native(fs, path, size, ignore_read_only, bad) ==
    IF ~(ignore_read_only \/ ~is_read_only_root(path))
    THEN Res(Result_FsReadOnly, fs, <<>>)
    ELSE LET r == fsFsCreateFile(fs, path, size, bad)
         IN  IF r.st # "ok"
             THEN Res(NativeRc(r.st), fs, <<IoCall("fsFsCreateFile", path, r.st)>>)
             ELSE Res(R_OK, r.fs, <<IoCall("fsFsCreateFile", path, "ok"),
                                    IoCall("fsFsCommit", <<>>, "ok")>>)

\* CreateFile (stdio) consulting both deny lists
CreateFile_stdio_anyRule(fs, path, size, ignore_read_only, bad) ==
    IF ~(ignore_read_only \/ ~is_read_only(path))
    THEN Res(Result_FsReadOnly, fs, <<>>)
    ELSE LET fd == open_creat(fs, path, bad)
         IN  IF fd.st # "ok"
             THEN Res(Result_FsUnknownStdioError, fs, <<IoCall("open", path, fd.st)>>)
             ELSE IF size # 0
             THEN Res(R_OK, ftruncate(fd.fs, path, size),
                      <<IoCall("open", path, "ok"), IoCall("ftruncate", path, "ok"),
                        IoCall("close", path, "ok")>>)
             ELSE Res(R_OK, fd.fs,
                      <<IoCall("open", path, "ok"), IoCall("close", path, "ok")>>)

\* fs.cpp:376-395
CreateFile_stdio(fs, path, size, ignore_read_only, bad) ==
    IF ~(ignore_read_only \/ ~is_read_only_root(path))
    THEN Res(Result_FsReadOnly, fs, <<>>)
    ELSE LET fd == open_creat(fs, path, bad)
         IN  IF fd.st # "ok"
             THEN Res(IF fd.st = "exists" THEN FsError_PathAlreadyExists
                      ELSE Result_FsUnknownStdioError,
                      fs, <<IoCall("open", path, fd.st)>>)
             ELSE IF size # 0
             THEN Res(R_OK, ftruncate(fd.fs, path, size),
                      <<IoCall("open", path, "ok"), IoCall("ftruncate", path, "ok"),
                        IoCall("close", path, "ok")>>)
             ELSE Res(R_OK, fd.fs,
                      <<IoCall("open", path, "ok"), IoCall("close", path, "ok")>>)

\* fs.cpp:191-197
CreateDirectory_native(fs, path, ignore_read_only, bad) ==
    IF ~(ignore_read_only \/ ~is_read_only_root(path))
    THEN Res(Result_FsReadOnly, fs, <<>>)
    ELSE LET r == mkdir(fs, path, bad)
         IN  IF r.st # "ok"
             THEN Res(NativeRc(r.st), fs, <<IoCall("fsFsCreateDirectory", path, r.st)>>)
             ELSE Res(R_OK, r.fs, <<IoCall("fsFsCreateDirectory", path, "ok"),
                                    IoCall("fsFsCommit", <<>>, "ok")>>)

\* fs.cpp:397-409
CreateDirectory_stdio(fs, path, ignore_read_only, bad) ==
    IF ~(ignore_read_only \/ ~is_read_only_root(path))
    THEN Res(Result_FsReadOnly, fs, <<>>)
    ELSE LET r == mkdir(fs, path, bad)
         IN  IF r.st # "ok"
             THEN Res(IF r.st = "exists" THEN FsError_PathAlreadyExists
                      ELSE Result_FsUnknownStdioError,
                      fs, <<IoCall("mkdir", path, r.st)>>)
             ELSE Res(R_OK, r.fs, <<IoCall("mkdir", path, "ok")>>)

\* CreateDirectory that reports an existing entry as a plain failure
CreateDirectory_existsIsFatal(b, fs, path, ignore_read_only, bad) ==
    LET r == IF b = "native"
             THEN CreateDirectory_native(fs, path, ignore_read_only, bad)
             ELSE CreateDirectory_stdio(fs, path, ignore_read_only, bad)
    IN  IF r.rc = FsError_PathAlreadyExists
        THEN Res(IF b = "native" THEN FsError_Other ELSE Result_FsUnknownStdioError,
                 r.fs, r.io)
        ELSE r

\* the `if (fs) ... else ...` of fs.cpp:204-208 and 231-235
CreateDirectory(b, fs, path, ignore_read_only, bad) ==
    IF b = "native"
    THEN CreateDirectory_native(fs, path, ignore_read_only, bad)
    ELSE CreateDirectory_stdio(fs, path, ignore_read_only, bad)

\* the loop over the segments without the strcat(path, "/") that ends a round
RECURSIVE CreateSegments_noSeparator(_, _, _, _, _, _, _)
CreateSegments_noSeparator(b, fs, path, dirs, ignore_read_only, bad, calls) ==
    IF dirs = <<>> THEN Res(R_OK, fs, calls)
    ELSE IF Head(dirs) = <<>>
    THEN CreateSegments_noSeparator(b, fs, path, Tail(dirs), ignore_read_only, bad, calls)
    ELSE LET p == path \o Head(dirs)
             r == CreateDirectory(b, fs, p, ignore_read_only, bad)
         IN  IF R_FAILED(r.rc) /\ r.rc # FsError_PathAlreadyExists
             THEN Res(r.rc, r.fs, calls \o r.io)
             ELSE CreateSegments_noSeparator(b, r.fs, p, Tail(dirs),
                                             ignore_read_only, bad, calls \o r.io)

\* the loop of fs.cpp:223-245 over the segments `dirs` still to visit;
\* `path` is the buffer built so far, `calls` the backend calls made so far
RECURSIVE CreateSegments(_, _, _, _, _, _, _)
CreateSegments(b, fs, path, dirs, ignore_read_only, bad, calls) ==
    IF dirs = <<>> THEN Res(R_OK, fs, calls)
    ELSE IF Head(dirs) = <<>>
    THEN CreateSegments(b, fs, path, Tail(dirs), ignore_read_only, bad, calls)
    ELSE LET p == path \o Head(dirs)
             r == CreateDirectory(b, fs, p, ignore_read_only, bad)
         IN  IF R_FAILED(r.rc) /\ r.rc # FsError_PathAlreadyExists
             THEN Res(r.rc, r.fs, calls \o r.io)
             ELSE CreateSegments(b, r.fs, p \o <<"/">>, Tail(dirs),
                                 ignore_read_only, bad, calls \o r.io)

\* fs.cpp:199-246; b = "stdio" is the call with fs == nullptr
CreateDirectoryRecursively(b, fs, _path, ignore_read_only, bad) ==
    IF ~(ignore_read_only \/ ~is_read_only_root(_path))
    THEN Res(Result_FsReadOnly, fs, <<>>)
    ELSE LET r == CreateDirectory(b, fs, _path, ignore_read_only, bad)
             s == strchr(_path, ":")
             path == IF s # 0 THEN SubSeq(_path, 1, s) \o <<"/">> ELSE <<"/">>
             path_view == IF s # 0 THEN SubSeq(_path, s + 1, Len(_path)) ELSE _path
         IN  IF R_SUCCEEDED(r.rc) \/ r.rc = FsError_PathAlreadyExists
             THEN Res(R_OK, r.fs, r.io)
             ELSE CreateSegments(b, r.fs, path, split(path_view),
                                 ignore_read_only, bad, r.io)

\* fs.cpp:411-415
CreateDirectoryRecursively_stdio(fs, path, ignore_read_only, bad) ==
    IF ~(ignore_read_only \/ ~is_read_only_root(path))
    THEN Res(Result_FsReadOnly, fs, <<>>)
    ELSE CreateDirectoryRecursively("stdio", fs, path, ignore_read_only, bad)

\* CreateDirectoryRecursivelyWithPath that keeps the final component
CreateDirectoryRecursivelyWithPath_keepName(b, fs, _path, ignore_read_only, bad) ==
    IF ~(ignore_read_only \/ ~is_read_only_root(_path))
    THEN Res(Result_FsReadOnly, fs, <<>>)
    ELSE IF strrchr(_path, "/") = 0 THEN Res(R_OK, fs, <<>>)
    ELSE CreateDirectoryRecursively(b, fs, _path, ignore_read_only, bad)

\* fs.cpp:248-261
CreateDirectoryRecursivelyWithPath(b, fs, _path, ignore_read_only, bad) ==
    IF ~(ignore_read_only \/ ~is_read_only_root(_path))
    THEN Res(Result_FsReadOnly, fs, <<>>)
    ELSE LET last_slash == strrchr(_path, "/")
             new_path == SubSeq(_path, 1, last_slash - 1)
         IN  IF last_slash = 0 THEN Res(R_OK, fs, <<>>)
             ELSE CreateDirectoryRecursively(b, fs, new_path, ignore_read_only, bad)

\* fs.cpp:417-421
CreateDirectoryRecursivelyWithPath_stdio(fs, path, ignore_read_only, bad) ==
    IF ~(ignore_read_only \/ ~is_read_only_root(path))
    THEN Res(Result_FsReadOnly, fs, <<>>)
    ELSE CreateDirectoryRecursivelyWithPath("stdio", fs, path, ignore_read_only, bad)

----------------------------------------------------------------------------
(* Recursive Directory Walker, fs.cpp:101-155 *)

\* the entries readdir hands out, in the order the directory stream yields
\* them: some fixed order, or its reverse
RECURSIVE SetToSeq(_)
SetToSeq(S) ==
    IF S = {} THEN <<>>
    ELSE LET x == CHOOSE y \in S : TRUE IN <<x>> \o SetToSeq(S \ {x})

Reverse(s) == [i \in 1..Len(s) |-> s[Len(s) + 1 - i]]

readdir(fs, p, rev) ==
    LET s == SetToSeq(Children(fs, p)) IN IF rev THEN Reverse(s) ELSE s

Walk(st, fs, calls) == [st |-> st, fs |-> fs, io |-> calls]

\* `nostat`: the entries whose d_type is DT_UNKNOWN and whose lstat fails
RECURSIVE remove_dir_recursive_impl(_, _, _, _, _)
RECURSIVE remove_children(_, _, _, _, _, _)

\* the while loop without its `result == 0` condition: a failed entry does
\* not end the loop
RECURSIVE remove_children_keepGoing(_, _, _, _, _, _)
remove_children_keepGoing(fs, entries, bad, nostat, rev, calls) ==
    IF entries = <<>> THEN Walk("ok", fs, calls)
    ELSE LET child == Head(entries)
             is_dir == IsDir(fs, child) /\ child \notin nostat
             r == IF is_dir
                  THEN remove_dir_recursive_impl(fs, child, bad, nostat, rev)
                  ELSE LET u == unlink(fs, child, bad)
                       IN  Walk(u.st, u.fs, <<IoCall("unlink", child, u.st)>>)
             n == remove_children_keepGoing(r.fs, Tail(entries), bad, nostat, rev,
                                            calls \o r.io)
         IN  IF r.st # "ok" THEN Walk("fail", n.fs, n.io) ELSE n

\* the while loop of fs.cpp:118-146 over the entries still to be read
remove_children(fs, entries, bad, nostat, rev, calls) ==
    IF entries = <<>> THEN Walk("ok", fs, calls)
    ELSE LET child == Head(entries)
             is_dir == IsDir(fs, child) /\ child \notin nostat
             r == IF is_dir
                  THEN remove_dir_recursive_impl(fs, child, bad, nostat, rev)
                  ELSE LET u == unlink(fs, child, bad)
                       IN  Walk(u.st, u.fs, <<IoCall("unlink", child, u.st)>>)
         IN  IF r.st # "ok" THEN Walk("fail", r.fs, calls \o r.io)
             ELSE remove_children(r.fs, Tail(entries), bad, nostat, rev, calls \o r.io)

remove_dir_recursive_impl(fs, path, bad, nostat, rev) ==
    IF ~Exists(fs, path) \/ path \in nostat
    THEN Walk("fail", fs, <<IoCall("lstat", path, "fail")>>)
    ELSE IF ~IsDir(fs, path)
    THEN LET u == unlink(fs, path, bad)
         IN  Walk(u.st, u.fs, <<IoCall("unlink", path, u.st)>>)
    ELSE LET c == remove_children(fs, readdir(fs, path, rev), bad, nostat, rev, <<>>)
         IN  IF c.st # "ok" THEN c
             ELSE LET d == rmdir(c.fs, path, bad)
                  IN  Walk(d.st, d.fs, c.io \o <<IoCall("rmdir", path, d.st)>>)

----------------------------------------------------------------------------
(* Delete operations, fs.cpp:263-284 (native) and fs.cpp:423-452 (stdio) *)

\* fs.cpp:263-268
DeleteFile_native(fs, path, ignore_read_only, bad) ==
    IF ~(ignore_read_only \/ ~is_read_only(path))
    THEN Res(Result_FsReadOnly, fs, <<>>)
    ELSE LET r == unlink(fs, path, bad)
         IN  IF r.st # "ok"
             THEN Res(NativeRc(r.st), fs, <<IoCall("fsFsDeleteFile", path, r.st)>>)
             ELSE Res(R_OK, r.fs, <<IoCall("fsFsDeleteFile", path, "ok"),
                                    IoCall("fsFsCommit", <<>>, "ok")>>)

\* fs.cpp:270-276
DeleteDirectory_native(fs, path, ignore_read_only, bad) ==
    IF ~(ignore_read_only \/ ~is_read_only(path))
    THEN Res(Result_FsReadOnly, fs, <<>>)
    ELSE LET r == rmdir(fs, path, bad)
         IN  IF r.st # "ok"
             THEN Res(NativeRc(r.st), fs, <<IoCall("fsFsDeleteDirectory", path, r.st)>>)
             ELSE Res(R_OK, r.fs, <<IoCall("fsFsDeleteDirectory", path, "ok"),
                                    IoCall("fsFsCommit", <<>>, "ok")>>)

\* fs.cpp:278-284
DeleteDirectoryRecursively_native(fs, path, ignore_read_only, bad) ==
    IF ~(ignore_read_only \/ ~is_read_only(path))
    THEN Res(Result_FsReadOnly, fs, <<>>)
    ELSE LET r == fsFsDeleteDirectoryRecursively(fs, path, bad)
         IN  IF r.st # "ok"
             THEN Res(NativeRc(r.st), fs,
                      <<IoCall("fsFsDeleteDirectoryRecursively", path, r.st)>>)
             ELSE Res(R_OK, r.fs, <<IoCall("fsFsDeleteDirectoryRecursively", path, "ok"),
                                    IoCall("fsFsCommit", <<>>, "ok")>>)

\* fs.cpp:423-431
DeleteFile_stdio(fs, path, ignore_read_only, bad) ==
    IF ~(ignore_read_only \/ ~is_read_only(path))
    THEN Res(Result_FsReadOnly, fs, <<>>)
    ELSE LET r == unlink(fs, path, bad)
         IN  IF r.st # "ok"
             THEN Res(Result_FsUnknownStdioError, fs, <<IoCall("unlink", path, r.st)>>)
             ELSE Res(R_OK, r.fs, <<IoCall("unlink", path, "ok")>>)

\* fs.cpp:433-441
DeleteDirectory_stdio(fs, path, ignore_read_only, bad) ==
    IF ~(ignore_read_only \/ ~is_read_only(path))
    THEN Res(Result_FsReadOnly, fs, <<>>)
    ELSE LET r == rmdir(fs, path, bad)
         IN  IF r.st # "ok"
             THEN Res(Result_FsUnknownStdioError, fs, <<IoCall("rmdir", path, r.st)>>)
             ELSE Res(R_OK, r.fs, <<IoCall("rmdir", path, "ok")>>)

\* fs.cpp:444-452
DeleteDirectoryRecursively_stdio(fs, path, ignore_read_only, bad, nostat, rev) ==
    IF ~(ignore_read_only \/ ~is_read_only(path))
    THEN Res(Result_FsReadOnly, fs, <<>>)
    ELSE LET r == remove_dir_recursive_impl(fs, path, bad, nostat, rev)
         IN  IF r.st # "ok"
             THEN Res(Result_FsUnknownStdioError, r.fs, r.io)
             ELSE Res(R_OK, r.fs, r.io)

----------------------------------------------------------------------------
(* Rename operations, fs.cpp:286-302 (native) and fs.cpp:454-470 (stdio) *)

\* where the entry q below (or at) src lands when src is renamed to dst
Moved(q, src, dst) == dst \o SubSeq(q, Len(src) + 1, Len(q))

\* the rename primitive of the SD card (fsFsRenameFile / fsFsRenameDirectory,
\* which rename(2) ends in): the source exists and has the wanted kind, the
\* destination does not exist and its parent is a directory
fsRename(fs, src, dst, want, bad) ==
    IF /\ src \notin bad
       /\ Exists(fs, src) /\ src # P_root
       /\ want \in {"any", fs[src].kind}
       /\ Known(fs, dst) /\ ~Exists(fs, dst) /\ IsDir(fs, Parent(dst))
       /\ ~starts_with(dst, src \o <<"/">>)
       /\ \A q \in Subtree(fs, src) : Known(fs, Moved(q, src, dst))
    THEN LET from == Subtree(fs, src)
             to == {Moved(q, src, dst) : q \in from}
         IN  Env("ok", [q \in DOMAIN fs |->
                 IF q \in to
                 THEN fs[CHOOSE o \in from : Moved(o, src, dst) = q]
                 ELSE IF q \in from THEN NoEnt ELSE fs[q]])
    ELSE Env("fail", fs)

\* RenameFile (native) without the check of the destination
RenameFile_native_srcOnly(fs, src, dst, ignore_read_only, bad) ==
    IF ~(ignore_read_only \/ ~is_read_only(src)) THEN Res(Result_FsReadOnly, fs, <<>>)
    ELSE LET r == fsRename(fs, src, dst, "file", bad)
         IN  IF r.st # "ok"
             THEN Res(NativeRc(r.st), fs, <<IoCall("fsFsRenameFile", src, r.st)>>)
             ELSE Res(R_OK, r.fs, <<IoCall("fsFsRenameFile", src, "ok"),
                                    IoCall("fsFsCommit", <<>>, "ok")>>)

\* fs.cpp:286-293
RenameFile_native(fs, src, dst, ignore_read_only, bad) ==
    IF ~(ignore_read_only \/ ~is_read_only(src)) THEN Res(Result_FsReadOnly, fs, <<>>)
    ELSE IF ~(ignore_read_only \/ ~is_read_only(dst)) THEN Res(Result_FsReadOnly, fs, <<>>)
    ELSE LET r == fsRename(fs, src, dst, "file", bad)
         IN  IF r.st # "ok"
             THEN Res(NativeRc(r.st), fs, <<IoCall("fsFsRenameFile", src, r.st)>>)
             ELSE Res(R_OK, r.fs, <<IoCall("fsFsRenameFile", src, "ok"),
                                    IoCall("fsFsCommit", <<>>, "ok")>>)

\* fs.cpp:295-302
RenameDirectory_native(fs, src, dst, ignore_read_only, bad) ==
    IF ~(ignore_read_only \/ ~is_read_only(src)) THEN Res(Result_FsReadOnly, fs, <<>>)
    ELSE IF ~(ignore_read_only \/ ~is_read_only(dst)) THEN Res(Result_FsReadOnly, fs, <<>>)
    ELSE LET r == fsRename(fs, src, dst, "dir", bad)
         IN  IF r.st # "ok"
             THEN Res(NativeRc(r.st), fs, <<IoCall("fsFsRenameDirectory", src, r.st)>>)
             ELSE Res(R_OK, r.fs, <<IoCall("fsFsRenameDirectory", src, "ok"),
                                    IoCall("fsFsCommit", <<>>, "ok")>>)

\* fs.cpp:454-463
RenameFile_stdio(fs, src, dst, ignore_read_only, bad) ==
    IF ~(ignore_read_only \/ ~is_read_only(src)) THEN Res(Result_FsReadOnly, fs, <<>>)
    ELSE IF ~(ignore_read_only \/ ~is_read_only(dst)) THEN Res(Result_FsReadOnly, fs, <<>>)
    ELSE LET r == fsRename(fs, src, dst, "any", bad)
         IN  IF r.st # "ok"
             THEN Res(Result_FsUnknownStdioError, fs, <<IoCall("rename", src, r.st)>>)
             ELSE Res(R_OK, r.fs, <<IoCall("rename", src, "ok")>>)

\* fs.cpp:465-470
RenameDirectory_stdio(fs, src, dst, ignore_read_only, bad) ==
    IF ~(ignore_read_only \/ ~is_read_only(src)) THEN Res(Result_FsReadOnly, fs, <<>>)
    ELSE IF ~(ignore_read_only \/ ~is_read_only(dst)) THEN Res(Result_FsReadOnly, fs, <<>>)
    ELSE RenameFile_stdio(fs, src, dst, ignore_read_only, bad)

----------------------------------------------------------------------------
(* File handles, fs.cpp:589-713.  A handle is the File object's fields:    *)
(* m_fs (the backend, "null" before OpenFile), m_mode, whether m_native /  *)
(* m_stdio is open, m_stdio_off (the tracked offset) and `pos`, the stdio  *)
(* stream's real position.                                                 *)

FsOpenMode_Read == "Read"
FsOpenMode_Write == "Write"

NoFile ==
    [m_fs |-> "null", m_mode |-> {}, open |-> FALSE, path |-> <<>>,
     m_stdio_off |-> 0, pos |-> 0, eof |-> FALSE, err |-> FALSE]

FRes(r, f, fs, data, calls) == [rc |-> r, f |-> f, fs |-> fs, data |-> data, io |-> calls]

Min(a, b) == IF a < b THEN a ELSE b

\* the bytes of d in [off, off + n), clamped to the end of d
Slice(d, off, n) ==
    IF off >= Len(d) THEN <<>> ELSE SubSeq(d, off + 1, Min(Len(d), off + n))

\* d with buf stored at offset off, zero-filled where it grows
Store(d, off, buf) ==
    [i \in 1..(IF off + Len(buf) > Len(d) THEN off + Len(buf) ELSE Len(d)) |->
        IF i > off /\ i <= off + Len(buf) THEN buf[i - off]
        ELSE IF i <= Len(d) THEN d[i] ELSE 0]

\* fs.cpp:589-611
OpenFile(b, fs, path, mode, bad) ==
    LET f == [NoFile EXCEPT !.m_fs = b, !.m_mode = mode, !.path = path]
        found == IsFile(fs, path) /\ path \notin bad
    IN  IF b = "native"
        THEN IF found
             THEN FRes(R_OK, [f EXCEPT !.open = TRUE], fs, <<>>,
                       <<IoCall("fsFsOpenFile", path, "ok")>>)
             ELSE FRes(FsError_Other, f, fs, <<>>, <<IoCall("fsFsOpenFile", path, "fail")>>)
        ELSE IF mode = {}
        THEN FRes(Result_FsUnknownStdioError, f, fs, <<>>, <<>>)
        ELSE IF found
        THEN FRes(R_OK, [f EXCEPT !.open = TRUE], fs, <<>>,
                  <<IoCall("fopen", path, "ok")>>)
        ELSE FRes(Result_FsUnknownStdioError, f, fs, <<>>, <<IoCall("fopen", path, "fail")>>)

\* fs.cpp:680-692
File_GetSize(f, fs) ==
    IF f.m_fs = "null" THEN FRes(Result_FsNotActive, f, fs, 0, <<>>)
    ELSE IF f.m_fs = "stdio" /\ ~f.open THEN FRes(UndefinedBehaviour, f, fs, 0, <<>>)
    ELSE IF ~f.open \/ ~IsFile(fs, f.path)
    THEN FRes(IF f.m_fs = "native" THEN FsError_Other ELSE Result_FsUnknownStdioError,
              f, fs, 0, <<IoCall("getsize", f.path, "fail")>>)
    ELSE FRes(R_OK, f, fs, Len(fs[f.path].data), <<IoCall("getsize", f.path, "ok")>>)

\* what can go wrong in a libc call on the stream: nothing, the fseek
\* fails, or the device fails in fread / fwrite
StdioFaults == {"none", "seek", "io"}

\* fs.cpp:624-627 and 650-654: the tracked offset is set to `off` and the
\* stream is positioned when the two differ; the result of fseek is not
\* looked at.  A successful fseek clears the end-of-file indicator.
SeekIfMoved(f, off, fault) ==
    IF f.m_stdio_off = off THEN f
    ELSE IF fault = "seek" THEN [f EXCEPT !.m_stdio_off = off]
    ELSE [f EXCEPT !.m_stdio_off = off, !.pos = off, !.eof = FALSE]

\* fread(buf, 1, read_size, m_stdio): nothing is read while the end-of-file
\* indicator is set; a device failure ends the read one byte short and sets
\* the error indicator; a read that meets the end of the file sets the
\* end-of-file indicator
fread(f, fs, read_size, fault) ==
    LET data == IF IsFile(fs, f.path) THEN fs[f.path].data ELSE <<>>
        broken == fault = "io" \/ ~IsFile(fs, f.path)
        got == IF f.eof \/ read_size = 0 THEN <<>>
               ELSE IF broken THEN Slice(data, f.pos, read_size - 1)
               ELSE Slice(data, f.pos, read_size)
    IN  [got |-> got,
         f |-> [f EXCEPT !.pos = @ + Len(got),
                         !.err = @ \/ (broken /\ ~f.eof /\ read_size # 0),
                         !.eof = @ \/ (~broken /\ Len(got) < read_size)]]

\* fs.cpp:623-639, the branch of File::Read for the stdio backend
File_Read_stdio(f, fs, off, read_size, fault) ==
    LET r == fread(SeekIfMoved(f, off, fault), fs, read_size, fault)
    IN  IF Len(r.got) < read_size /\ ~r.f.eof /\ r.f.err
        THEN FRes(Result_FsUnknownStdioError, r.f, fs, r.got,
                  <<IoCall("fread", f.path, "fail")>>)
        ELSE FRes(R_OK, [r.f EXCEPT !.m_stdio_off = @ + Len(r.got)], fs, r.got,
                  <<IoCall("fread", f.path, "ok")>>)

\* fs.cpp:649-660, the branch of File::Write for the stdio backend; a device
\* failure ends fwrite one byte short
File_Write_stdio(f, fs, off, buf, fault) ==
    LET s == SeekIfMoved(f, off, fault)
        denied == FsOpenMode_Write \notin f.m_mode  \* the stream was opened "rb"
        broken == (fault = "io" \/ denied \/ ~IsFile(fs, f.path)) /\ buf # <<>>
        put == IF denied \/ ~IsFile(fs, f.path) THEN <<>>
               ELSE IF broken THEN SubSeq(buf, 1, Len(buf) - 1) ELSE buf
        after == IF IsFile(fs, f.path) /\ put # <<>>
                 THEN [fs EXCEPT ![f.path].data = Store(@, s.pos, put)] ELSE fs
    IN  IF broken
        THEN FRes(Result_FsUnknownStdioError,
                  [s EXCEPT !.pos = @ + Len(put), !.err = TRUE], after, <<>>,
                  <<IoCall("fwrite", f.path, "fail")>>)
        ELSE FRes(R_OK, [s EXCEPT !.pos = @ + Len(put), !.m_stdio_off = @ + Len(buf)],
                  after, <<>>, <<IoCall("fwrite", f.path, "ok")>>)

\* fs.cpp:617-642
File_Read(f, fs, off, read_size) ==
    IF f.m_fs = "null" THEN FRes(Result_FsNotActive, f, fs, <<>>, <<>>)
    ELSE IF f.m_fs = "stdio" /\ ~f.open THEN FRes(UndefinedBehaviour, f, fs, <<>>, <<>>)
    ELSE IF f.m_fs = "native"
    THEN IF f.open /\ FsOpenMode_Read \in f.m_mode /\ IsFile(fs, f.path)
            /\ off <= Len(fs[f.path].data)
         THEN FRes(R_OK, f, fs, Slice(fs[f.path].data, off, read_size),
                   <<IoCall("fsFileRead", f.path, "ok")>>)
         ELSE FRes(FsError_Other, f, fs, <<>>, <<IoCall("fsFileRead", f.path, "fail")>>)
    ELSE File_Read_stdio(f, fs, off, read_size, "none")

\* fs.cpp:644-664
File_Write(f, fs, off, buf) ==
    IF f.m_fs = "null" THEN FRes(Result_FsNotActive, f, fs, <<>>, <<>>)
    ELSE IF f.m_fs = "stdio" /\ ~f.open THEN FRes(UndefinedBehaviour, f, fs, <<>>, <<>>)
    ELSE IF f.m_fs = "native"
    THEN \* FsWriteOption_None: the service does not grow the file
         IF f.open /\ FsOpenMode_Write \in f.m_mode /\ IsFile(fs, f.path)
            /\ off + Len(buf) <= Len(fs[f.path].data)
         THEN FRes(R_OK, f, [fs EXCEPT ![f.path].data = Store(@, off, buf)], <<>>,
                   <<IoCall("fsFileWrite", f.path, "ok")>>)
         ELSE FRes(FsError_Other, f, fs, <<>>, <<IoCall("fsFileWrite", f.path, "fail")>>)
    ELSE File_Write_stdio(f, fs, off, buf, "none")

\* File::SetSize that reports success and leaves the length as it was
File_SetSize_keep(f, fs, sz) ==
    IF f.m_fs = "null" THEN FRes(Result_FsNotActive, f, fs, <<>>, <<>>)
    ELSE FRes(R_OK, f, fs, <<>>, <<IoCall("fsFileSetSize", f.path, "ok")>>)

\* fs.cpp:666-678
File_SetSize(f, fs, sz) ==
    IF f.m_fs = "null" THEN FRes(Result_FsNotActive, f, fs, <<>>, <<>>)
    ELSE IF f.m_fs = "stdio" /\ ~f.open THEN FRes(UndefinedBehaviour, f, fs, <<>>, <<>>)
    ELSE IF f.m_fs = "native"
    THEN IF f.open /\ FsOpenMode_Write \in f.m_mode /\ IsFile(fs, f.path)
         THEN FRes(R_OK, f, ftruncate(fs, f.path, sz), <<>>,
                   <<IoCall("fsFileSetSize", f.path, "ok")>>)
         ELSE FRes(FsError_Other, f, fs, <<>>, <<IoCall("fsFileSetSize", f.path, "fail")>>)
    ELSE IF f.open /\ IsFile(fs, f.path) /\ FsOpenMode_Write \in f.m_mode
    THEN \* ftruncate needs a descriptor that is open for writing
         FRes(R_OK, f, ftruncate(fs, f.path, sz), <<>>,
              <<IoCall("ftruncate", f.path, "ok")>>)
    ELSE FRes(Result_FsUnknownStdioError, f, fs, <<>>, <<IoCall("ftruncate", f.path, "fail")>>)

\* File::Close that leaves m_native / m_stdio as they were
File_Close_keepOpen(f) ==
    IF f.m_fs = "null" THEN [f |-> f, io |-> <<>>]
    ELSE IF f.open
    THEN [f |-> f,
          io |-> <<IoCall(IF f.m_fs = "native" THEN "fsFileClose" ELSE "fclose",
                          f.path, "ok")>> \o
                 (IF f.m_fs = "native" /\ FsOpenMode_Write \in f.m_mode
                  THEN <<IoCall("fsFsCommit", <<>>, "ok")>> ELSE <<>>)]
    ELSE [f |-> f, io |-> <<>>]

\* fs.cpp:694-713: the backend calls Close issues, and the handle after it
File_Close(f) ==
    IF f.m_fs = "null" THEN [f |-> f, io |-> <<>>]
    ELSE IF f.m_fs = "native"
    THEN IF f.open
         THEN [f |-> [f EXCEPT !.open = FALSE],
               io |-> <<IoCall("fsFileClose", f.path, "ok")>> \o
                      (IF FsOpenMode_Write \in f.m_mode
                       THEN <<IoCall("fsFsCommit", <<>>, "ok")>> ELSE <<>>)]
         ELSE [f |-> f, io |-> <<>>]
    ELSE IF f.open
    THEN [f |-> [f EXCEPT !.open = FALSE], io |-> <<IoCall("fclose", f.path, "ok")>>]
    ELSE [f |-> f, io |-> <<>>]

----------------------------------------------------------------------------
(* Directory handles, fs.cpp:715-923.  A handle is the Dir object's fields: *)
(* m_fs, m_mode, whether m_native / m_stdio is open, and the directory      *)
(* stream: the entries readdir yields, with their d_type, and the position  *)
(* in it.                                                                   *)

FsDirOpenMode_ReadDirs == "ReadDirs"
FsDirOpenMode_ReadFiles == "ReadFiles"

FsDirEntryType_Dir == "Dir"
FsDirEntryType_File == "File"

NoDir ==
    [m_fs |-> "null", m_mode |-> {}, open |-> FALSE, path |-> <<>>,
     stream |-> <<>>, pos |-> 0]

DRes(r, d, count, entries, calls) ==
    [rc |-> r, d |-> d, count |-> count, entries |-> entries, io |-> calls]

\* the stream of the directory at `path`; `unk`: the entries whose d_type
\* the file system reports as DT_UNKNOWN
dirstream(fs, path, rev, unk) ==
    LET s == readdir(fs, path, rev)
    IN  [i \in 1..Len(s) |->
            [name |-> s[i],
             d_type |-> IF s[i] \in unk THEN "DT_UNKNOWN"
                        ELSE IF IsDir(fs, s[i]) THEN "DT_DIR" ELSE "DT_REG"]]

\* fs.cpp:715-728; the native service knows the kind of every entry
OpenDirectory(b, fs, path, mode, rev, unk, bad) ==
    LET d == [NoDir EXCEPT !.m_fs = b, !.m_mode = mode, !.path = path]
        found == IsDir(fs, path) /\ path \notin bad
    IN  IF b = "native"
        THEN IF found
             THEN DRes(R_OK, [d EXCEPT !.open = TRUE,
                                       !.stream = dirstream(fs, path, rev, {})],
                       0, <<>>, <<IoCall("fsFsOpenDirectory", path, "ok")>>)
             ELSE DRes(FsError_Other, d, 0, <<>>, <<IoCall("fsFsOpenDirectory", path, "fail")>>)
        ELSE IF found
        THEN DRes(R_OK, [d EXCEPT !.open = TRUE, !.stream = dirstream(fs, path, rev, unk)],
                  0, <<>>, <<IoCall("opendir", path, "ok")>>)
        ELSE DRes(Result_FsUnknownStdioError, d, 0, <<>>, <<IoCall("opendir", path, "fail")>>)

\* the entry type the native service reports
NativeType(e) == IF e.d_type = "DT_DIR" THEN FsDirEntryType_Dir ELSE FsDirEntryType_File

\* fsDirRead / fsDirGetEntryCount: the entries that the open mode selects
NativeVisible(e, mode) ==
    IF e.d_type = "DT_DIR" THEN FsDirOpenMode_ReadDirs \in mode
    ELSE FsDirOpenMode_ReadFiles \in mode

\* fsDirRead: up to `max` selected entries from position `pos` on
RECURSIVE fsDirRead(_, _, _, _, _)
fsDirRead(stream, pos, mode, max, acc) ==
    IF pos >= Len(stream) \/ Len(acc) >= max THEN [pos |-> pos, entries |-> acc]
    ELSE LET e == stream[pos + 1]
         IN  IF NativeVisible(e, mode)
             THEN fsDirRead(stream, pos + 1, mode, max,
                            Append(acc, [name |-> e.name, type |-> NativeType(e)]))
             ELSE fsDirRead(stream, pos + 1, mode, max, acc)

\* fs.cpp:796-815
Dir_GetEntryCount(d, fs) ==
    IF d.m_fs = "null" THEN DRes(Result_FsNotActive, d, 0, <<>>, <<>>)
    ELSE IF d.m_fs = "stdio" /\ ~d.open THEN DRes(UndefinedBehaviour, d, 0, <<>>, <<>>)
    ELSE IF d.m_fs = "native"
    THEN IF d.open
         THEN DRes(R_OK, d,
                   Cardinality({i \in DOMAIN d.stream : NativeVisible(d.stream[i], d.m_mode)}),
                   <<>>, <<IoCall("fsDirGetEntryCount", d.path, "ok")>>)
         ELSE DRes(FsError_Other, d, 0, <<>>, <<IoCall("fsDirGetEntryCount", d.path, "fail")>>)
    ELSE DRes(R_OK, [d EXCEPT !.pos = 0], Len(d.stream) - d.pos, <<>>,
              <<IoCall("readdir", d.path, "ok"), IoCall("rewinddir", d.path, "ok")>>)

\* the loop of fs.cpp:823-856 from position `pos` on; the entry is stored
\* before the count is compared with max_entries
RECURSIVE Dir_Read_loop(_, _, _, _, _)
Dir_Read_loop(stream, pos, mode, max, acc) ==
    IF pos >= Len(stream) THEN [pos |-> pos, entries |-> acc]
    ELSE LET e == stream[pos + 1]
             skip == \/ e.d_type = "DT_DIR" /\ FsDirOpenMode_ReadDirs \notin mode
                     \/ e.d_type = "DT_REG" /\ FsDirOpenMode_ReadFiles \notin mode
             entry == [name |-> e.name,
                       type |-> IF e.d_type = "DT_DIR" THEN FsDirEntryType_Dir
                                ELSE FsDirEntryType_File]
         IN  IF skip THEN Dir_Read_loop(stream, pos + 1, mode, max, acc)
             ELSE IF Len(acc) + 1 >= max
             THEN [pos |-> pos + 1, entries |-> Append(acc, entry)]
             ELSE Dir_Read_loop(stream, pos + 1, mode, max, Append(acc, entry))

\* fs.cpp:817-861; an entry stored beyond max_entries overruns the buffer
Dir_Read(d, fs, max_entries) ==
    IF d.m_fs = "null" THEN DRes(Result_FsNotActive, d, 0, <<>>, <<>>)
    ELSE IF d.m_fs = "stdio" /\ ~d.open THEN DRes(UndefinedBehaviour, d, 0, <<>>, <<>>)
    ELSE IF d.m_fs = "native"
    THEN IF d.open
         THEN LET r == fsDirRead(d.stream, d.pos, d.m_mode, max_entries, <<>>)
              IN  DRes(R_OK, [d EXCEPT !.pos = r.pos], Len(r.entries), r.entries,
                       <<IoCall("fsDirRead", d.path, "ok")>>)
         ELSE DRes(FsError_Other, d, 0, <<>>, <<IoCall("fsDirRead", d.path, "fail")>>)
    ELSE LET r == Dir_Read_loop(d.stream, d.pos, d.m_mode, max_entries, <<>>)
         IN  IF Len(r.entries) > max_entries
             THEN DRes(UndefinedBehaviour, [d EXCEPT !.pos = r.pos], Len(r.entries),
                       r.entries, <<IoCall("readdir", d.path, "ok")>>)
             ELSE DRes(R_OK, [d EXCEPT !.pos = r.pos], Len(r.entries), r.entries,
                       <<IoCall("readdir", d.path, "ok")>>)

\* the loop of fs.cpp:876-901 from position `pos` on
RECURSIVE Dir_ReadAll_loop(_, _, _, _)
Dir_ReadAll_loop(stream, pos, mode, acc) ==
    IF pos >= Len(stream) THEN acc
    ELSE LET e == stream[pos + 1]
             keep == \/ e.d_type = "DT_DIR" /\ FsDirOpenMode_ReadDirs \in mode
                     \/ e.d_type = "DT_REG" /\ FsDirOpenMode_ReadFiles \in mode
         IN  Dir_ReadAll_loop(stream, pos + 1, mode,
                 IF keep THEN Append(acc, [name |-> e.name, type |-> NativeType(e)])
                 ELSE acc)

\* fs.cpp:863-905
Dir_ReadAll(d, fs) ==
    IF d.m_fs = "null" THEN DRes(Result_FsNotActive, d, 0, <<>>, <<>>)
    ELSE IF d.m_fs = "stdio" /\ ~d.open THEN DRes(UndefinedBehaviour, d, 0, <<>>, <<>>)
    ELSE IF d.m_fs = "native"
    THEN LET c == Dir_GetEntryCount(d, fs)
             r == fsDirRead(d.stream, d.pos, d.m_mode, c.count, <<>>)
         IN  IF R_FAILED(c.rc) THEN DRes(c.rc, d, 0, <<>>, c.io)
             ELSE DRes(R_OK, [d EXCEPT !.pos = r.pos], Len(r.entries), r.entries,
                       c.io \o <<IoCall("fsDirRead", d.path, "ok")>>)
    ELSE LET es == Dir_ReadAll_loop(d.stream, d.pos, d.m_mode, <<>>)
         IN  DRes(R_OK, [d EXCEPT !.pos = Len(d.stream)], Len(es), es,
                  <<IoCall("readdir", d.path, "ok")>>)

\* fs.cpp:907-923: the backend calls Close issues, and the handle after it
Dir_Close(d) ==
    IF d.m_fs = "null" THEN [d |-> d, io |-> <<>>]
    ELSE IF d.open
    THEN [d |-> [d EXCEPT !.open = FALSE],
          io |-> <<IoCall(IF d.m_fs = "native" THEN "fsDirClose" ELSE "closedir",
                          d.path, "ok")>>]
    ELSE [d |-> d, io |-> <<>>]

\* the loop of fs.cpp:750-785 over the stream from position `pos` on;
\* `nostat`: the entries on which lstat fails
RECURSIVE CountLoop(_, _, _, _, _, _)
CountLoop(fs, stream, pos, mode, nostat, acc) ==
    IF pos >= Len(stream) THEN acc
    ELSE LET e == stream[pos + 1]
             dirs == FsDirOpenMode_ReadDirs \in mode
             files == FsDirOpenMode_ReadFiles \in mode
             isdir == \/ e.d_type = "DT_DIR" /\ dirs
                      \/ e.d_type = "DT_UNKNOWN" /\ e.name \notin nostat
                         /\ IsDir(fs, e.name) /\ dirs
             isfile == \/ e.d_type = "DT_REG" /\ files
                       \/ e.d_type = "DT_UNKNOWN" /\ e.name \notin nostat
                          /\ IsFile(fs, e.name) /\ files
         IN  CountLoop(fs, stream, pos + 1, mode, nostat,
                       [file_count |-> acc.file_count + (IF isfile THEN 1 ELSE 0),
                        dir_count |-> acc.dir_count + (IF isdir THEN 1 ELSE 0)])

\* fs.cpp:737-790; the Dir objects are closed when they leave their scope
Fs_DirGetEntryCount(b, fs, path, mode, rev, unk, nostat) ==
    LET none == [file_count |-> 0, dir_count |-> 0]
        od == OpenDirectory(b, fs, path, {FsDirOpenMode_ReadDirs}, rev, unk, {})
        cd == Dir_GetEntryCount(od.d, fs)
        of == OpenDirectory(b, fs, path, {FsDirOpenMode_ReadFiles}, rev, unk, {})
        cf == Dir_GetEntryCount(of.d, fs)
        dirs == FsDirOpenMode_ReadDirs \in mode
        files == FsDirOpenMode_ReadFiles \in mode
        o == OpenDirectory(b, fs, path, mode, rev, unk, {})
    IN  IF b = "native"
        THEN IF dirs /\ R_FAILED(od.rc) THEN [rc |-> od.rc, count |-> none, io |-> od.io]
             ELSE IF dirs /\ R_FAILED(cd.rc)
             THEN [rc |-> cd.rc, count |-> none, io |-> od.io \o cd.io \o Dir_Close(od.d).io]
             ELSE LET first == IF dirs THEN od.io \o cd.io \o Dir_Close(od.d).io ELSE <<>>
                      dc == IF dirs THEN cd.count ELSE 0
                  IN  IF files /\ R_FAILED(of.rc)
                      THEN [rc |-> of.rc, count |-> [file_count |-> 0, dir_count |-> dc],
                            io |-> first \o of.io]
                      ELSE IF files /\ R_FAILED(cf.rc)
                      THEN [rc |-> cf.rc, count |-> [file_count |-> 0, dir_count |-> dc],
                            io |-> first \o of.io \o cf.io \o Dir_Close(of.d).io]
                      ELSE [rc |-> R_OK,
                            count |-> [file_count |-> IF files THEN cf.count ELSE 0,
                                       dir_count |-> dc],
                            io |-> first \o (IF files
                                             THEN of.io \o cf.io \o Dir_Close(of.d).io
                                             ELSE <<>>)]
        ELSE IF R_FAILED(o.rc) THEN [rc |-> o.rc, count |-> none, io |-> o.io]
        ELSE [rc |-> R_OK, count |-> CountLoop(fs, o.d.stream, 0, mode, nostat, none),
              io |-> o.io \o <<IoCall("readdir", path, "ok")>> \o Dir_Close(o.d).io]

----------------------------------------------------------------------------
(* Whole-file operations, fs.cpp:329-374 (native) and fs.cpp:529-587 (stdio) *)

RRes(r, fs, calls, bytes) == [rc |-> r, fs |-> fs, io |-> calls, out |-> bytes]

\* fs.cpp:329-348; the File destructor closes the handle on every return
read_entire_file_native(fs, path, bad) ==
    LET o == OpenFile("native", fs, path, {FsOpenMode_Read}, bad)
        g == File_GetSize(o.f, fs)
        r == File_Read(o.f, fs, 0, g.data)
        c == File_Close(o.f).io
    IN  IF R_FAILED(o.rc) THEN RRes(o.rc, fs, o.io, <<>>)
        ELSE IF R_FAILED(g.rc) THEN RRes(g.rc, fs, o.io \o g.io \o c, <<>>)
        ELSE IF R_FAILED(r.rc) THEN RRes(r.rc, fs, o.io \o g.io \o r.io \o c, <<>>)
        ELSE IF Len(r.data) # g.data
        THEN RRes(Result_ShortRead, fs, o.io \o g.io \o r.io \o c, r.data)
        ELSE RRes(R_OK, fs, o.io \o g.io \o r.io \o c, r.data)

\* write_entire_file (native) whose FsNative object is built without the
\* caller's override, so that its CreateFile applies the policy again
write_entire_file_native_noFlag(fs, path, in, ignore_read_only, bad) ==
    IF ~(ignore_read_only \/ ~is_read_only(path))
    THEN Res(Result_FsReadOnly, fs, <<>>)
    ELSE LET k == CreateFile_native(fs, path, Len(in), FALSE, bad)
             o == OpenFile("native", k.fs, path, {FsOpenMode_Write}, bad)
             s == File_SetSize(o.f, k.fs, Len(in))
             w == File_Write(s.f, s.fs, 0, in)
             c == File_Close(o.f).io
         IN  IF R_FAILED(k.rc) /\ k.rc # FsError_PathAlreadyExists
             THEN Res(k.rc, k.fs, k.io)
             ELSE IF R_FAILED(o.rc) THEN Res(o.rc, k.fs, k.io \o o.io)
             ELSE IF R_FAILED(s.rc) THEN Res(s.rc, s.fs, k.io \o o.io \o s.io \o c)
             ELSE IF R_FAILED(w.rc) THEN Res(w.rc, w.fs, k.io \o o.io \o s.io \o w.io \o c)
             ELSE Res(R_OK, w.fs, k.io \o o.io \o s.io \o w.io \o c)

\* fs.cpp:350-366; fs.CreateFile is FsNative's CreateFile, which hands the
\* object's ignore_read_only to CreateFile (native)
write_entire_file_native(fs, path, in, ignore_read_only, bad) ==
    IF ~(ignore_read_only \/ ~is_read_only(path))
    THEN Res(Result_FsReadOnly, fs, <<>>)
    ELSE LET k == CreateFile_native(fs, path, Len(in), ignore_read_only, bad)
             o == OpenFile("native", k.fs, path, {FsOpenMode_Write}, bad)
             s == File_SetSize(o.f, k.fs, Len(in))
             w == File_Write(s.f, s.fs, 0, in)
             c == File_Close(o.f).io
         IN  IF R_FAILED(k.rc) /\ k.rc # FsError_PathAlreadyExists
             THEN Res(k.rc, k.fs, k.io)
             ELSE IF R_FAILED(o.rc) THEN Res(o.rc, k.fs, k.io \o o.io)
             ELSE IF R_FAILED(s.rc) THEN Res(s.rc, s.fs, k.io \o o.io \o s.io \o c)
             ELSE IF R_FAILED(w.rc) THEN Res(w.rc, w.fs, k.io \o o.io \o s.io \o w.io \o c)
             ELSE Res(R_OK, w.fs, k.io \o o.io \o s.io \o w.io \o c)

\* fs.cpp:529-561
read_entire_file_stdio(fs, path, bad) ==
    IF ~IsFile(fs, path) \/ path \in bad
    THEN RRes(Result_FsUnknownStdioError, fs, <<IoCall("fopen", path, "fail")>>, <<>>)
    ELSE LET size == Len(fs[path].data)
             read == Slice(fs[path].data, 0, size)
         IN  RRes(R_OK, fs, <<IoCall("fopen", path, "ok"), IoCall("fread", path, "ok"),
                            IoCall("fclose", path, "ok")>>, read)

\* fopen(path, "wb"): creates the file or truncates it to zero length
fopen_wb(fs, p, bad) ==
    IF p \in bad \/ ~Known(fs, p) \/ IsDir(fs, p) \/ ~IsDir(fs, Parent(p))
    THEN Env("fail", fs)
    ELSE IF IsFile(fs, p) THEN Env("ok", [fs EXCEPT ![p].data = <<>>])
    ELSE Env("ok", [fs EXCEPT ![p] = FileEnt(<<>>)])

\* fs.cpp:563-579
write_entire_file_stdio(fs, path, in, ignore_read_only, bad) ==
    IF ~(ignore_read_only \/ ~is_read_only(path))
    THEN Res(Result_FsReadOnly, fs, <<>>)
    ELSE LET f == fopen_wb(fs, path, bad)
         IN  IF f.st # "ok"
             THEN Res(Result_FsUnknownStdioError, fs, <<IoCall("fopen", path, "fail")>>)
             ELSE Res(R_OK, [f.fs EXCEPT ![path].data = Store(@, 0, in)],
                      <<IoCall("fopen", path, "ok"), IoCall("fwrite", path, "ok"),
                        IoCall("fclose", path, "ok")>>)

\* copy_entire_file (native) that goes on to write after a failed read
copy_entire_file_native_ignoreReadError(fs, dst, src, ignore_read_only, bad) ==
    IF ~(ignore_read_only \/ ~is_read_only(dst))
    THEN Res(Result_FsReadOnly, fs, <<>>)
    ELSE LET r == read_entire_file_native(fs, src, bad)
             w == write_entire_file_native(fs, dst, r.out, ignore_read_only, bad)
         IN  Res(w.rc, w.fs, r.io \o w.io)

\* fs.cpp:368-374
copy_entire_file_native(fs, dst, src, ignore_read_only, bad) ==
    IF ~(ignore_read_only \/ ~is_read_only(dst))
    THEN Res(Result_FsReadOnly, fs, <<>>)
    ELSE LET r == read_entire_file_native(fs, src, bad)
             w == write_entire_file_native(fs, dst, r.out, ignore_read_only, bad)
         IN  IF R_FAILED(r.rc) THEN Res(r.rc, fs, r.io)
             ELSE Res(w.rc, w.fs, r.io \o w.io)

\* fs.cpp:581-587
copy_entire_file_stdio(fs, dst, src, ignore_read_only, bad) ==
    IF ~(ignore_read_only \/ ~is_read_only(dst))
    THEN Res(Result_FsReadOnly, fs, <<>>)
    ELSE LET r == read_entire_file_stdio(fs, src, bad)
             w == write_entire_file_stdio(fs, dst, r.out, ignore_read_only, bad)
         IN  IF R_FAILED(r.rc) THEN Res(r.rc, fs, r.io)
             ELSE Res(w.rc, w.fs, r.io \o w.io)

----------------------------------------------------------------------------
(* Timestamps, fs.cpp:312-315 (native) and fs.cpp:503-515 (stdio).  A      *)
(* timestamp record is [is_valid, modified]; the store keeps the modified  *)
(* time of an entry.                                                       *)

\* fs.cpp:312-315
SetTimestamp_native(fs, path, ts) == Res(R_OK, fs, <<>>)

\* fs.cpp:503-515: a failing utimes is logged and ignored
SetTimestamp_stdio(fs, path, ts) ==
    IF ts.is_valid
    THEN IF Exists(fs, path)
         THEN Res(R_OK, [fs EXCEPT ![path].mtime = ts.modified],
                  <<IoCall("utimes", path, "ok")>>)
         ELSE Res(R_OK, fs, <<IoCall("utimes", path, "fail")>>)
    ELSE Res(R_OK, fs, <<>>)

----------------------------------------------------------------------------
(* Hash engine, hasher.cpp.  A source is the object's fields; a digest     *)
(* algorithm's state is the algorithm and the bytes fed to it so far, and  *)
(* its final string stands for "the hex digest of these bytes under this   *)
(* algorithm".                                                             *)

\* hasher.cpp:226-230
HashTypes == {"Crc32", "Md5", "Sha1", "Sha256"}

\* the Result a cancelled transfer returns
Result_TransferCancelled == "TransferCancelled"

\* hasher.cpp:50
MemSource(data) ==
    [kind |-> "mem", m_data |-> data, m_file |-> NoFile, m_open_result |-> R_OK]

\* hasher.cpp:19-22
FileSource(b, fs, path) ==
    LET o == OpenFile(b, fs, path, {FsOpenMode_Read}, {})
    IN  [kind |-> "file", m_data |-> <<>>, m_file |-> o.f, m_open_result |-> o.rc]

SRes(r, src, size, data) == [rc |-> r, source |-> src, size |-> size, data |-> data]

\* hasher.cpp:52-55
MemSource_Size(src) == SRes(R_OK, src, Len(src.m_data), <<>>)

\* MemSource::Read without the clamp to the bytes available
MemSource_Read_noClamp(src, off, size) ==
    IF off < 0 THEN SRes(R_OK, src, 0, <<>>)
    ELSE LET avail == Len(src.m_data) - off
         IN  IF avail <= 0 THEN SRes(R_OK, src, 0, <<>>)
             ELSE SRes(R_OK, src, size, SubSeq(src.m_data, off + 1, Min(off + size, Len(src.m_data))))

\* hasher.cpp:57-73
MemSource_Read(src, off, size) ==
    IF off < 0 THEN SRes(R_OK, src, 0, <<>>)
    ELSE LET avail == Len(src.m_data) - off
         IN  IF avail <= 0 THEN SRes(R_OK, src, 0, <<>>)
             ELSE LET to_read == Min(size, avail)
                  IN  SRes(R_OK, src, to_read, SubSeq(src.m_data, off + 1, off + to_read))

\* FileSource::Size that asks the file whatever the open returned
FileSource_Size_noCheck(src, fs) ==
    LET g == File_GetSize(src.m_file, fs) IN SRes(g.rc, src, g.data, <<>>)

\* hasher.cpp:24-27
FileSource_Size(src, fs) ==
    IF R_FAILED(src.m_open_result) THEN SRes(src.m_open_result, src, 0, <<>>)
    ELSE LET g == File_GetSize(src.m_file, fs) IN SRes(g.rc, src, g.data, <<>>)

\* FileSource::Read that hands the file the offset 0 whatever `off` is
FileSource_Read_fromStart(src, fs, off, size, fault) ==
    IF R_FAILED(src.m_open_result) THEN SRes(src.m_open_result, src, 0, <<>>)
    ELSE IF fault
    THEN SRes(IF src.m_file.m_fs = "native" THEN FsError_Other
              ELSE Result_FsUnknownStdioError, src, 0, <<>>)
    ELSE LET r == File_Read(src.m_file, fs, 0, size)
         IN  SRes(r.rc, [src EXCEPT !.m_file = r.f],
                  IF R_FAILED(r.rc) THEN 0 ELSE Len(r.data),
                  IF R_FAILED(r.rc) THEN <<>> ELSE r.data)

\* hasher.cpp:29-40; `fault`: the backend read fails with an I/O error
FileSource_Read(src, fs, off, size, fault) ==
    IF R_FAILED(src.m_open_result) THEN SRes(src.m_open_result, src, 0, <<>>)
    ELSE IF fault
    THEN SRes(IF src.m_file.m_fs = "native" THEN FsError_Other
              ELSE Result_FsUnknownStdioError, src, 0, <<>>)
    ELSE LET r == File_Read(src.m_file, fs, off, size)
         IN  SRes(r.rc, [src EXCEPT !.m_file = r.f],
                  IF R_FAILED(r.rc) THEN 0 ELSE Len(r.data),
                  IF R_FAILED(r.rc) THEN <<>> ELSE r.data)

\* BaseSource::Size and BaseSource::Read, dispatched on the source's class
Source_Size(src, fs) ==
    IF src.kind = "mem" THEN MemSource_Size(src) ELSE FileSource_Size(src, fs)

\* the read lambda handing the source the offset 0 whatever `off` is
Source_Read_fromStart(src, fs, off, size, fault) ==
    IF src.kind = "mem" THEN MemSource_Read(src, 0, size)
    ELSE FileSource_Read(src, fs, 0, size, fault)

\* hasher.cpp:200-202: the read lambda of Hash
Source_Read(src, fs, off, size, fault) ==
    IF src.kind = "mem" THEN MemSource_Read(src, off, size)
    ELSE FileSource_Read(src, fs, off, size, fault)

\* hasher.cpp:79-83: a freshly constructed algorithm, Update and Get
HashSource(type) == [type |-> type, fed |-> <<>>]

HashSource_Update(ctx, buf) == [ctx EXCEPT !.fed = @ \o buf]

HashSource_Get(ctx) == [alg |-> ctx.type, digest_of |-> ctx.fed]

\* the caller's string before Hash is called
StaleOut == [alg |-> "none", digest_of |-> <<>>]

\* no hash computation has been started
HashIdle ==
    [pc |-> "idle", type |-> "none", source |-> MemSource(<<>>), file_size |-> 0,
     off |-> 0, ctx |-> HashSource("none"), gets |-> 0, out |-> StaleOut,
     rc |-> R_OK, stop |-> FALSE, again |-> FALSE]

\* hasher.cpp:225-233: Hash(pbox, type, source, out) makes a new algorithm
\* object of the type and enters Hash(pbox, hash, source, out)
Hash_Begin(type, src) ==
    [HashIdle EXCEPT !.pc = "size", !.type = type, !.source = src,
                     !.ctx = HashSource(type)]

\* Hash returns r without touching `out`
Hash_Return(h, r) == [h EXCEPT !.pc = "done", !.rc = r]

\* hasher.cpp:199-210 with Get called whatever the transfer returned
Hash_afterTransfer_alwaysGet(h, trc) ==
    [h EXCEPT !.pc = "done", !.rc = trc, !.gets = @ + 1, !.out = HashSource_Get(h.ctx)]

\* hasher.cpp:199-210: R_TRY on the transfer's Result `trc`, then Get
Hash_afterTransfer(h, trc) ==
    IF R_FAILED(trc) THEN Hash_Return(h, trc)
    ELSE [h EXCEPT !.pc = "done", !.rc = R_OK, !.gets = @ + 1,
                   !.out = HashSource_Get(h.ctx)]

\* hasher.cpp:196-197: R_TRY(source->Size(&file_size))
Hash_Size(h, fs) ==
    LET s == Source_Size(h.source, fs)
    IN  IF R_FAILED(s.rc) THEN Hash_Return(h, s.rc)
        ELSE [h EXCEPT !.pc = "transfer", !.file_size = s.size, !.source = s.source]

\* one round of thread::Transfer's loop with the two lambdas of
\* hasher.cpp:200-206: the stop flag is consulted, a chunk is read at the
\* running offset and handed to Update; the loop ends when the offset
\* reaches the size or a read yields no bytes
Transfer(h, fs, fault) ==
    IF h.off >= h.file_size THEN Hash_afterTransfer(h, R_OK)
    ELSE IF h.stop THEN Hash_afterTransfer(h, Result_TransferCancelled)
    ELSE LET r == Source_Read(h.source, fs, h.off, Min(MaxChunk, h.file_size - h.off), fault)
             n == [h EXCEPT !.source = r.source, !.off = @ + r.size,
                            !.ctx = HashSource_Update(@, r.data)]
         IN  IF R_FAILED(r.rc) THEN Hash_afterTransfer([h EXCEPT !.source = r.source], r.rc)
             ELSE IF r.size = 0 THEN Hash_afterTransfer(n, R_OK)
             ELSE IF n.off >= n.file_size THEN Hash_afterTransfer(n, R_OK)
             ELSE n

\* the rounds of the transfer that no stop signal and no I/O error ends
RECURSIVE Hash_Loop(_, _)
Hash_Loop(h, fs) ==
    IF h.pc = "transfer" THEN Hash_Loop(Transfer(h, fs, FALSE), fs) ELSE h

\* hasher.cpp:195-211 and 225-233: a whole computation, from the call to
\* its return
Hash(type, src, fs) == Hash_Loop(Hash_Size(Hash_Begin(type, src), fs), fs)

----------------------------------------------------------------------------
(* The calls a client makes.  Each action is one call of one operation on  *)
(* one backend, from its policy check to its return.                       *)

\* how many calls a behaviour of Spec makes at most
MaxCalls == 1

\* largest timestamp value
MaxTime == 1

Call(op, b, p, q, ig) == [op |-> op, backend |-> b, path |-> p, dst |-> q, ignore |-> ig]

Returns(c, r, bytes) ==
    /\ sd' = r.fs
    /\ rc' = r.rc
    /\ io' = r.io
    /\ out' = bytes
    /\ last' = c
    /\ hash' = hash
    /\ hnd' = hnd

FsCreateFile(b, p, size, ig, bad) ==
    Returns(Call("CreateFile", b, p, <<>>, ig),
            IF b = "native" THEN CreateFile_native(sd, p, size, ig, bad)
            ELSE CreateFile_stdio(sd, p, size, ig, bad), <<>>)

FsCreateDirectory(b, p, ig, bad) ==
    Returns(Call("CreateDirectory", b, p, <<>>, ig),
            CreateDirectory(b, sd, p, ig, bad), <<>>)

FsCreateDirectoryRecursively(b, p, ig, bad) ==
    Returns(Call("CreateDirectoryRecursively", b, p, <<>>, ig),
            IF b = "native" THEN CreateDirectoryRecursively(b, sd, p, ig, bad)
            ELSE CreateDirectoryRecursively_stdio(sd, p, ig, bad), <<>>)

FsCreateDirectoryRecursivelyWithPath(b, p, ig, bad) ==
    Returns(Call("CreateDirectoryRecursivelyWithPath", b, p, <<>>, ig),
            IF b = "native" THEN CreateDirectoryRecursivelyWithPath(b, sd, p, ig, bad)
            ELSE CreateDirectoryRecursivelyWithPath_stdio(sd, p, ig, bad), <<>>)

FsDeleteFile(b, p, ig, bad) ==
    Returns(Call("DeleteFile", b, p, <<>>, ig),
            IF b = "native" THEN DeleteFile_native(sd, p, ig, bad)
            ELSE DeleteFile_stdio(sd, p, ig, bad), <<>>)

FsDeleteDirectory(b, p, ig, bad) ==
    Returns(Call("DeleteDirectory", b, p, <<>>, ig),
            IF b = "native" THEN DeleteDirectory_native(sd, p, ig, bad)
            ELSE DeleteDirectory_stdio(sd, p, ig, bad), <<>>)

FsDeleteDirectoryRecursively(b, p, ig, bad, nostat, rev) ==
    Returns(Call("DeleteDirectoryRecursively", b, p, <<>>, ig),
            IF b = "native" THEN DeleteDirectoryRecursively_native(sd, p, ig, bad)
            ELSE DeleteDirectoryRecursively_stdio(sd, p, ig, bad, nostat, rev), <<>>)

FsRenameFile(b, src, dst, ig, bad) ==
    Returns(Call("RenameFile", b, src, dst, ig),
            IF b = "native" THEN RenameFile_native(sd, src, dst, ig, bad)
            ELSE RenameFile_stdio(sd, src, dst, ig, bad), <<>>)

FsRenameDirectory(b, src, dst, ig, bad) ==
    Returns(Call("RenameDirectory", b, src, dst, ig),
            IF b = "native" THEN RenameDirectory_native(sd, src, dst, ig, bad)
            ELSE RenameDirectory_stdio(sd, src, dst, ig, bad), <<>>)

FsWriteEntireFile(b, p, in, ig, bad) ==
    Returns(Call("write_entire_file", b, p, in, ig),
            IF b = "native" THEN write_entire_file_native(sd, p, in, ig, bad)
            ELSE write_entire_file_stdio(sd, p, in, ig, bad), <<>>)

FsReadEntireFile(b, p, bad) ==
    LET r == IF b = "native" THEN read_entire_file_native(sd, p, bad)
             ELSE read_entire_file_stdio(sd, p, bad)
    IN  Returns(Call("read_entire_file", b, p, <<>>, FALSE), r, r.out)

\* copy_entire_file(dst, src): `path` of the call is dst, `dst` of the call is src
FsCopyEntireFile(b, dst, src, ig, bad) ==
    Returns(Call("copy_entire_file", b, dst, src, ig),
            IF b = "native" THEN copy_entire_file_native(sd, dst, src, ig, bad)
            ELSE copy_entire_file_stdio(sd, dst, src, ig, bad), <<>>)

FsSetTimestamp(b, p, ts) ==
    Returns(Call("SetTimestamp", b, p, <<>>, FALSE),
            IF b = "native" THEN SetTimestamp_native(sd, p, ts)
            ELSE SetTimestamp_stdio(sd, p, ts), <<>>)

----------------------------------------------------------------------------
(* The SD cards a behaviour starts from *)

EmptyCard == [p \in PATHS |-> IF p = P_root THEN DirEnt ELSE NoEnt]

\* a card in use: the protected entries exist, next to the user's own
UsedCard ==
    [p \in PATHS |->
        IF p \in {P_root, P_backup, P_switch, P_a} THEN DirEnt
        ELSE IF p = P_backup_s THEN FileEnt(<<1>>)
        ELSE IF p = P_prodkeys THEN FileEnt(<<1, 0>>)
        ELSE IF p = P_switch_app THEN FileEnt(<<0>>)
        ELSE IF p = P_hbmenu THEN FileEnt(<<1, 1>>)
        ELSE NoEnt]

\* no File or Dir object exists
NoHandle ==
    [file |-> NoFile, dir |-> NoDir, live |-> "none",
     opened |-> FALSE, closes |-> 0, commits |-> 0]

NoCall == Call("none", "none", <<>>, <<>>, FALSE)

Fresh ==
    /\ last = NoCall
    /\ rc = R_OK
    /\ io = <<>>
    /\ out = <<>>
    /\ ncalls = 0
    /\ hash = HashIdle
    /\ hnd = NoHandle

Timestamps == [is_valid : BOOLEAN, modified : 0..MaxTime]

----------------------------------------------------------------------------
(* Spec: every operation on every backend with and without the override,   *)
(* on protected and unprotected paths of an empty and of a used card        *)

\* the second path of a rename or a copy: unprotected, exact match, under a prefix
OtherPaths == {P_a, P_switch, P_backup_s, P_switch_app}

\* what the model writes in Spec: nothing, or as much as fits
SomeContents == {d \in Contents : Len(d) \in {0, MaxLen} /\ \A i \in DOMAIN d : d[i] = MaxByte}

Init == sd \in {EmptyCard, UsedCard} /\ Fresh

Counted == ncalls < MaxCalls /\ ncalls' = ncalls + 1

Next ==
    \/ \E b \in Backends, p \in PolicyPaths, n \in 0..MaxLen, ig \in BOOLEAN :
          Counted /\ FsCreateFile(b, p, n, ig, {})
    \/ \E b \in Backends, p \in PolicyPaths, ig \in BOOLEAN :
          Counted /\ FsCreateDirectory(b, p, ig, {})
    \/ \E b \in Backends, p \in PolicyPaths, ig \in BOOLEAN :
          Counted /\ FsCreateDirectoryRecursively(b, p, ig, {})
    \/ \E b \in Backends, p \in PolicyPaths, ig \in BOOLEAN :
          Counted /\ FsCreateDirectoryRecursivelyWithPath(b, p, ig, {})
    \/ \E b \in Backends, p \in PolicyPaths, ig \in BOOLEAN :
          Counted /\ FsDeleteFile(b, p, ig, {})
    \/ \E b \in Backends, p \in PolicyPaths, ig \in BOOLEAN :
          Counted /\ FsDeleteDirectory(b, p, ig, {})
    \/ \E b \in Backends, p \in PolicyPaths, ig \in BOOLEAN :
          Counted /\ FsDeleteDirectoryRecursively(b, p, ig, {}, {}, FALSE)
    \/ \E b \in Backends, p \in PolicyPaths, q \in OtherPaths, ig \in BOOLEAN :
          Counted /\ FsRenameFile(b, p, q, ig, {})
    \/ \E b \in Backends, p \in PolicyPaths, q \in OtherPaths, ig \in BOOLEAN :
          Counted /\ FsRenameDirectory(b, p, q, ig, {})
    \/ \E b \in Backends, p \in PolicyPaths, d \in SomeContents, ig \in BOOLEAN :
          Counted /\ FsWriteEntireFile(b, p, d, ig, {})
    \/ \E b \in Backends, p \in PolicyPaths :
          Counted /\ FsReadEntireFile(b, p, {})
    \/ \E b \in Backends, p \in PolicyPaths, q \in OtherPaths, ig \in BOOLEAN :
          Counted /\ FsCopyEntireFile(b, p, q, ig, {})
    \/ \E b \in Backends, p \in PolicyPaths, ts \in Timestamps :
          Counted /\ FsSetTimestamp(b, p, ts)

Spec == Init /\ [][Next]_vars

----------------------------------------------------------------------------
(* Claims about the path policy, checked under Spec *)

\* what the claims call a protected path, stated from the two lists
ExactList == {READONLY_FILES[i] : i \in DOMAIN READONLY_FILES}

ProtectedPrefixes == {READONLY_ROOT_FOLDERS[i] : i \in DOMAIN READONLY_ROOT_FOLDERS}

InExactList(p) == p \in ExactList

UnderProtectedPrefix(p) ==
    \E e \in ProtectedPrefixes : Len(e) <= Len(p) /\ \A i \in 1..Len(e) : p[i] = e[i]

Protected(p) == InExactList(p) \/ UnderProtectedPrefix(p)

CreateOps ==
    {"CreateFile", "CreateDirectory", "CreateDirectoryRecursively",
     "CreateDirectoryRecursivelyWithPath"}

DeleteOps == {"DeleteFile", "DeleteDirectory", "DeleteDirectoryRecursively"}

RenameOps == {"RenameFile", "RenameDirectory"}

WholeFileOps == {"write_entire_file", "copy_entire_file"}

\* the operations that take the override flag
MutatingOps == CreateOps \cup DeleteOps \cup RenameOps \cup WholeFileOps

\* the policy predicate of the call c, over the paths the call names
PolicyHolds(c) ==
    IF c.op \in CreateOps THEN UnderProtectedPrefix(c.path)
    ELSE IF c.op \in RenameOps THEN Protected(c.path) \/ Protected(c.dst)
    ELSE Protected(c.path)

\* C1: a create operation (CreateFile, CreateDirectory,
\* CreateDirectoryRecursively, CreateDirectoryRecursivelyWithPath) called
\* without the override on a path that starts with a protected prefix
\* returns ReadOnly on either backend, issues no backend call and leaves
\* the card as it was.
C1_CreateUnderProtectedPrefix ==
    [][(last'.op \in CreateOps /\ ~last'.ignore /\ UnderProtectedPrefix(last'.path) /\ ncalls' # ncalls)
        => (rc' = Result_FsReadOnly /\ io' = <<>> /\ sd' = sd)]_vars

C1_Witness ==
    /\ last.op = "CreateDirectoryRecursivelyWithPath"
    /\ last.backend = "stdio"
    /\ ~last.ignore
    /\ last.path = P_backupx
    /\ rc = Result_FsReadOnly
    /\ io = <<>>

\* C2: DeleteFile, DeleteDirectory, DeleteDirectoryRecursively and
\* RenameFile called without the override return ReadOnly when their (first)
\* path equals an entry of the exact-match list; a path that is neither in
\* that list nor under a protected prefix is never the reason for ReadOnly:
\* the delete operations do not return it for such a path, and RenameFile
\* returns it only if one of its two paths is protected.
C2_ExactMatchRule ==
    /\ (last.op \in DeleteOps \cup {"RenameFile"} /\ ~last.ignore
            /\ InExactList(last.path))
        => rc = Result_FsReadOnly
    /\ (last.op \in DeleteOps /\ ~Protected(last.path))
        => rc # Result_FsReadOnly
    /\ (last.op = "RenameFile" /\ ~Protected(last.path) /\ ~Protected(last.dst))
        => rc # Result_FsReadOnly

C2_Witness ==
    /\ last.op = "DeleteFile"
    /\ ~last.ignore
    /\ last.path = P_switch_app
    /\ sd[P_switch].kind = "dir"
    /\ sd[P_prodkeys].kind = "file"
    /\ sd[P_switch_app].kind = "none"
    /\ rc = R_OK

\* C3: RenameFile and RenameDirectory called without the override return
\* ReadOnly on either backend, without a backend call and without changing
\* the card, whenever the source or the destination is protected.
C3_RenameChecksBothPaths ==
    [][(last'.op \in RenameOps /\ ~last'.ignore /\ ncalls' # ncalls
            /\ (Protected(last'.path) \/ Protected(last'.dst)))
        => (rc' = Result_FsReadOnly /\ io' = <<>> /\ sd' = sd)]_vars

C3_Witness ==
    /\ last.op = "RenameDirectory"
    /\ ~last.ignore
    /\ ~Protected(last.path)
    /\ Protected(last.dst)
    /\ sd[last.path].kind = "dir"
    /\ rc = Result_FsReadOnly

\* C4: with the override set no mutating operation returns ReadOnly and each
\* one reaches a backend call; ReadOnly is returned only without the
\* override and only when the operation's policy predicate holds for one of
\* its paths.
C4_OverrideSkipsPolicy ==
    /\ (last.op \in MutatingOps /\ last.ignore)
        => (rc # Result_FsReadOnly /\ io # <<>>)
    /\ rc = Result_FsReadOnly
        => (last.op \in MutatingOps /\ ~last.ignore /\ PolicyHolds(last))

C4_Witness ==
    /\ last.op = "write_entire_file"
    /\ last.backend = "native"
    /\ last.ignore
    /\ last.path = P_backup_s
    /\ rc = R_OK
    /\ sd[P_backup_s].data = last.dst

\* C5: without the override no operation changes an existing entry whose
\* path is in the exact-match list or starts with a protected prefix.
C5_ProtectedEntriesUnchanged ==
    [][(~last'.ignore /\ ncalls' # ncalls)
        => \A p \in PATHS : (Protected(p) /\ Exists(sd, p)) => sd'[p] = sd[p]]_vars

\* the overload of operation op for backend b, with neutral further arguments
Overload(op, b, fs, p, q, ig) ==
    CASE op = "CreateFile" ->
            IF b = "native" THEN CreateFile_native(fs, p, 0, ig, {})
            ELSE CreateFile_stdio(fs, p, 0, ig, {})
      [] op = "CreateDirectory" -> CreateDirectory(b, fs, p, ig, {})
      [] op = "CreateDirectoryRecursively" ->
            IF b = "native" THEN CreateDirectoryRecursively(b, fs, p, ig, {})
            ELSE CreateDirectoryRecursively_stdio(fs, p, ig, {})
      [] op = "CreateDirectoryRecursivelyWithPath" ->
            IF b = "native" THEN CreateDirectoryRecursivelyWithPath(b, fs, p, ig, {})
            ELSE CreateDirectoryRecursivelyWithPath_stdio(fs, p, ig, {})
      [] op = "DeleteFile" ->
            IF b = "native" THEN DeleteFile_native(fs, p, ig, {})
            ELSE DeleteFile_stdio(fs, p, ig, {})
      [] op = "DeleteDirectory" ->
            IF b = "native" THEN DeleteDirectory_native(fs, p, ig, {})
            ELSE DeleteDirectory_stdio(fs, p, ig, {})
      [] op = "DeleteDirectoryRecursively" ->
            IF b = "native" THEN DeleteDirectoryRecursively_native(fs, p, ig, {})
            ELSE DeleteDirectoryRecursively_stdio(fs, p, ig, {}, {}, FALSE)
      [] op = "RenameFile" ->
            IF b = "native" THEN RenameFile_native(fs, p, q, ig, {})
            ELSE RenameFile_stdio(fs, p, q, ig, {})
      [] op = "RenameDirectory" ->
            IF b = "native" THEN RenameDirectory_native(fs, p, q, ig, {})
            ELSE RenameDirectory_stdio(fs, p, q, ig, {})
      [] op = "write_entire_file" ->
            IF b = "native" THEN write_entire_file_native(fs, p, <<>>, ig, {})
            ELSE write_entire_file_stdio(fs, p, <<>>, ig, {})
      [] op = "copy_entire_file" ->
            IF b = "native" THEN copy_entire_file_native(fs, p, q, ig, {})
            ELSE copy_entire_file_stdio(fs, p, q, ig, {})

\* the backend a call did not use
OtherBackend(b) == IF b = "native" THEN "stdio" ELSE "native"

\* C6: whenever a mutating operation is called on one backend, the call
\* returns ReadOnly exactly when the other backend's overload, given the
\* same card, path (pair of paths) and override, returns ReadOnly.
C6_PolicyIsBackendIndependent ==
    [][(last'.op \in MutatingOps /\ ncalls' # ncalls)
       => ((rc' = Result_FsReadOnly)
            <=> (Overload(last'.op, OtherBackend(last'.backend), sd, last'.path,
                          last'.dst, last'.ignore).rc = Result_FsReadOnly))]_vars

C6_Witness ==
    /\ last.op = "copy_entire_file"
    /\ last.backend = "stdio"
    /\ rc = Result_FsReadOnly
    /\ Overload(last.op, "native", sd, last.path, last.dst, last.ignore).rc = Result_FsReadOnly
    /\ Overload(last.op, "native", sd, P_a, last.dst, last.ignore).rc # Result_FsReadOnly
    /\ Overload(last.op, "stdio", sd, P_a, last.dst, last.ignore).rc # Result_FsReadOnly

----------------------------------------------------------------------------
(* SpecRoundTrip: whole-file writes and reads of two files of /a, on either *)
(* backend, over whatever the files held before                             *)

RoundTripFiles == {P_a_f, P_a_b}

\* what a file holds before the first call: zero bytes, of any length
Zeros == {d \in Contents : \A i \in DOMAIN d : d[i] = 0}

\* "/" and "/a" exist; each of the two files is absent or holds zeros
RoundTripCards ==
    {[p \in PATHS |->
        IF p \in {P_root, P_a} THEN DirEnt
        ELSE IF p \in RoundTripFiles THEN e[p]
        ELSE NoEnt] :
     e \in [RoundTripFiles -> {NoEnt} \cup {FileEnt(d) : d \in Zeros}]}

\* what SpecRoundTrip writes: every length, each byte the least or the
\* greatest value
RoundTripContents == {d \in Contents : \A i \in DOMAIN d : d[i] \in {0, MaxByte}}

InitRoundTrip == sd \in RoundTripCards /\ Fresh

NextRoundTrip ==
    \/ \E b \in Backends, p \in RoundTripFiles, d \in RoundTripContents :
          FsWriteEntireFile(b, p, d, FALSE, {}) /\ UNCHANGED ncalls
    \/ \E b \in Backends, p \in RoundTripFiles :
          FsReadEntireFile(b, p, {}) /\ UNCHANGED ncalls

SpecRoundTrip == InitRoundTrip /\ [][NextRoundTrip]_vars

\* C7: when write_entire_file(p, b) has succeeded and the next call is
\* read_entire_file(p), on the same or on the other backend, the read
\* succeeds and returns exactly b, whatever p held before the write.
C7_WriteThenReadReturnsWritten ==
    [][(/\ last.op = "write_entire_file"
        /\ rc = R_OK
        /\ last'.op = "read_entire_file"
        /\ last'.path = last.path)
       => (rc' = R_OK /\ out' = last.dst)]_vars

\* a read on the native backend returned the one non-zero byte that a write
\* stored, next to a longer file: every file starts with zeros only, so the
\* byte read is the byte written
C7_Witness ==
    /\ last.op = "read_entire_file"
    /\ last.backend = "native"
    /\ rc = R_OK
    /\ out = <<MaxByte>>
    /\ sd[last.path].data = out
    /\ \E q \in RoundTripFiles : IsFile(sd, q) /\ Len(sd[q].data) = MaxLen

----------------------------------------------------------------------------
(* SpecTree: a tree below /a is built with CreateDirectoryRecursively and   *)
(* CreateFile and removed with DeleteDirectoryRecursively, whose backend     *)
(* calls may fail on one entry                                              *)

\* at most one path on which a backend call fails
Faults == {{}} \cup {{p} : p \in TreePaths}

InitTree == sd = EmptyCard /\ Fresh

NextTree ==
    \/ \E b \in Backends, p \in {P_a_b_c, P_a_b} :
          FsCreateDirectoryRecursively(b, p, FALSE, {}) /\ UNCHANGED ncalls
    \/ \E b \in Backends, p \in {P_a_f, P_a_b_g} :
          FsCreateFile(b, p, 0, FALSE, {}) /\ UNCHANGED ncalls
    \/ \E b \in Backends, p \in {P_a, P_a_b}, bad \in Faults, nostat \in Faults,
          rev \in BOOLEAN :
          FsDeleteDirectoryRecursively(b, p, FALSE, bad, nostat, rev) /\ UNCHANGED ncalls

SpecTree == InitTree /\ [][NextTree]_vars

\* the card that holds "/", "/a", "/a/b", "/a/b/c" and nothing else
CardABC ==
    [p \in PATHS |-> IF p \in {P_root, P_a, P_a_b, P_a_b_c} THEN DirEnt ELSE NoEnt]

\* C8: CreateDirectoryRecursively("/a/b/c") on a card that holds only the
\* root succeeds and leaves exactly the directories /a, /a/b and /a/b/c; and
\* a CreateDirectoryRecursively that follows a successful one of the same
\* path succeeds and changes nothing.
C8_CreateDirectoryRecursively ==
    [][/\ (sd = EmptyCard /\ last'.op = "CreateDirectoryRecursively"
           /\ last'.path = P_a_b_c /\ last' # last)
          => (rc' = R_OK /\ sd' = CardABC)
       /\ (last.op = "CreateDirectoryRecursively" /\ rc = R_OK
           /\ last'.op = "CreateDirectoryRecursively" /\ last'.path = last.path)
          => (rc' = R_OK /\ sd' = sd)]_vars

\* the second call has returned: it found /a/b/c at its first mkdir
C8_Witness ==
    /\ last.op = "CreateDirectoryRecursively"
    /\ last.path = P_a_b_c
    /\ last.backend = "stdio"
    /\ rc = R_OK
    /\ io = <<IoCall("mkdir", P_a_b_c, "exists")>>
    /\ sd = CardABC

\* the paths of `log` entries that report a removal
RemovedBefore(log, i) == {log[j][2] : j \in {k \in 1..(i - 1) : log[k][3] = "ok"}}

\* a is a directory above q
Above(a, q) == starts_with(q, a \o <<"/">>)

\* C9: DeleteDirectoryRecursively on the stdio backend walks post-order.
\* It calls rmdir on a directory only after it removed every entry the
\* directory held.  When it succeeds, the path and everything below it is
\* gone and nothing else changed.  When a call on an entry fails, the error
\* is returned, that call is the last one made (no further sibling is
\* visited), every directory above the failed entry still exists, and so at
\* least one entry of the tree remains.
C9_PostOrderRemoval ==
    [][(/\ last'.op = "DeleteDirectoryRecursively"
        /\ last'.backend = "stdio"
        /\ last' # last \/ io' # io \/ sd' # sd)
       => /\ \A i \in DOMAIN io' :
                io'[i][1] = "rmdir" => Children(sd, io'[i][2]) \subseteq RemovedBefore(io', i)
          /\ (\E i \in DOMAIN io' : io'[i][3] # "ok") => rc' # R_OK
          /\ rc' = R_OK =>
                \A q \in PATHS :
                    sd'[q] = IF q \in Subtree(sd, last'.path) THEN NoEnt ELSE sd[q]
          /\ rc' # R_OK =>
                /\ io' # <<>>
                /\ \A i \in DOMAIN io' : io'[i][3] # "ok" <=> i = Len(io')
                /\ \A a \in PATHS :
                      (Exists(sd, a) /\ Above(a, io'[Len(io')][2])) => sd'[a] = sd[a]
                /\ Exists(sd, last'.path) =>
                      \E q \in Subtree(sd, last'.path) : Exists(sd', q)
                /\ \A q \in PATHS : q \notin Subtree(sd, last'.path) => sd'[q] = sd[q]]_vars

\* /a/b was emptied and removed, then the call on the sibling /a/f failed:
\* /a and /a/f remain
C9_Witness ==
    /\ last.op = "DeleteDirectoryRecursively"
    /\ last.backend = "stdio"
    /\ last.path = P_a
    /\ rc # R_OK
    /\ \E i \in DOMAIN io : io[i] = IoCall("rmdir", P_a_b, "ok")
    /\ io[Len(io)] = IoCall("unlink", P_a_f, "fail")
    /\ IsDir(sd, P_a) /\ IsFile(sd, P_a_f) /\ ~Exists(sd, P_a_b)

----------------------------------------------------------------------------
(* SpecHash: hash computations over memory spans and over files of a used   *)
(* card, step by step: the call, the Size query, each round of the transfer *)
(* loop; the stop signal may be raised between any two steps                *)

HashFiles == {P_switch_app, P_hbmenu, P_a_f}

\* a call that takes over the algorithm state the computation before it left
HashCall_reuseCtx(type, src) ==
    /\ hash.pc \in {"idle", "done"}
    /\ hash' = [Hash_Begin(type, src) EXCEPT !.again = (hash.pc = "done"),
                                             !.ctx = [hash.ctx EXCEPT !.type = type]]
    /\ UNCHANGED <<fsvars, ncalls, hnd>>

\* hasher.cpp:225-243: the source and the algorithm are constructed; `again`
\* records that a computation ran before this one
HashCall(type, src) ==
    /\ hash.pc \in {"idle", "done"}
    /\ hash' = [Hash_Begin(type, src) EXCEPT !.again = (hash.pc = "done")]
    /\ UNCHANGED <<fsvars, ncalls, hnd>>

\* hasher.cpp:196-197
HashQuerySize ==
    /\ hash.pc = "size"
    /\ hash' = Hash_Size(hash, sd)
    /\ UNCHANGED <<fsvars, ncalls, hnd>>

\* hasher.cpp:199-210: one round of the transfer loop, and what follows the
\* loop when this round ends it
HashTransfer(fault) ==
    /\ hash.pc = "transfer"
    /\ hash' = Transfer(hash, sd, fault)
    /\ UNCHANGED <<fsvars, ncalls, hnd>>

\* the user asks the progress box to stop
SignalStop ==
    /\ hash.pc \in {"size", "transfer"}
    /\ ~hash.stop
    /\ hash' = [hash EXCEPT !.stop = TRUE]
    /\ UNCHANGED <<fsvars, ncalls, hnd>>

\* the bytes SpecHash hashes: every length, each byte the least or the
\* greatest value
HashContents == {d \in Contents : \A i \in DOMAIN d : d[i] \in {0, MaxByte}}

\* the used card, where /a/f is absent or holds any of these contents
HashCards == {UsedCard} \cup {[UsedCard EXCEPT ![P_a_f] = FileEnt(d)] : d \in HashContents}

InitHash == sd \in HashCards /\ Fresh

NextHash ==
    \/ \E type \in HashTypes, d \in HashContents : HashCall(type, MemSource(d))
    \/ \E type \in HashTypes, b \in Backends, p \in HashFiles :
          HashCall(type, FileSource(b, sd, p))
    \/ HashQuerySize
    \/ \E fault \in BOOLEAN : HashTransfer(fault)
    \/ SignalStop

SpecHash == InitHash /\ [][NextHash]_vars

\* C10: Get is called at most once, and only when the computation returns
\* success: a computation that returned success called Get exactly once and
\* `out` holds what Get produced; a computation that is still running, or
\* that returned an error (of Size, of Read, of the transfer, or the
\* cancellation), never called Get and left `out` as the caller passed it.
\* A round of the loop that finds the stop signal raised while bytes remain
\* ends the computation with the cancellation Result.
C10_GetExactlyOnceOnSuccess ==
    [][/\ hash'.gets <= 1
       /\ hash'.pc = "done" =>
             IF hash'.rc = R_OK
             THEN hash'.gets = 1 /\ hash'.out = HashSource_Get(hash'.ctx)
             ELSE hash'.gets = 0 /\ hash'.out = StaleOut
       /\ hash'.pc \in {"size", "transfer"} => (hash'.gets = 0 /\ hash'.out = StaleOut)
       /\ (hash.pc = "transfer" /\ hash.stop /\ hash.off < hash.file_size /\ hash' # hash)
             => (hash'.pc = "done" /\ hash'.rc = Result_TransferCancelled)]_vars

\* a computation was cancelled mid-stream: a chunk had been fed, bytes
\* remained, the cancellation was returned and Get was not called
C10_Witness ==
    /\ hash.pc = "done"
    /\ hash.rc = Result_TransferCancelled
    /\ hash.off > 0
    /\ hash.off < hash.file_size
    /\ hash.ctx.fed # <<>>
    /\ hash.gets = 0
    /\ hash.out = StaleOut

\* the bytes of the file a file-backed source was opened on
FileBytes(src) == sd[src.m_file.path].data

\* C11: a computation over a file-backed source that returns success, on
\* either backend and for every algorithm, leaves in `out` the string that
\* the computation over a memory-backed source built from the file's full
\* contents returns.
C11_FileSourceEqualsMemSource ==
    (hash.pc = "done" /\ hash.rc = R_OK /\ hash.source.kind = "file")
        => LET mem == Hash(hash.type, MemSource(FileBytes(hash.source)), sd)
           IN  mem.rc = R_OK /\ hash.out = mem.out

\* a file of more than one chunk was hashed through the stdio backend
C11_Witness ==
    /\ hash.pc = "done"
    /\ hash.rc = R_OK
    /\ hash.source.kind = "file"
    /\ hash.source.m_file.m_fs = "stdio"
    /\ Len(FileBytes(hash.source)) > MaxChunk
    /\ hash.out = Hash(hash.type, MemSource(FileBytes(hash.source)), sd).out
    /\ hash.out.digest_of = FileBytes(hash.source)

\* C12: the string a successful computation over a memory-backed source
\* returns is determined by the algorithm and the source's bytes alone: it
\* is the digest of exactly these bytes, whichever computations ran before.
C12_HashIsHistoryFree ==
    (hash.pc = "done" /\ hash.rc = R_OK /\ hash.source.kind = "mem")
        => /\ hash.out = [alg |-> hash.type, digest_of |-> hash.source.m_data]
           /\ hash.out = Hash(hash.type, MemSource(hash.source.m_data), sd).out

\* a computation that followed another one returned the digest of its bytes
C12_Witness ==
    /\ hash.pc = "done"
    /\ hash.rc = R_OK
    /\ hash.again
    /\ hash.source.kind = "mem"
    /\ Len(hash.source.m_data) = MaxLen
    /\ hash.out = [alg |-> "Crc32", digest_of |-> hash.source.m_data]

\* C13: CreateFile on a path where a file exists, when the policy lets the
\* call through, returns PathAlreadyExists on either backend and leaves the
\* card as it was.
C13_CreateFileOnExistingFile ==
    [][(/\ last'.op = "CreateFile"
        /\ ncalls' # ncalls
        /\ IsFile(sd, last'.path)
        /\ rc' # Result_FsReadOnly)
       => (rc' = FsError_PathAlreadyExists /\ sd' = sd)]_vars

----------------------------------------------------------------------------
(* SpecHandle: the life of one File or one Dir object on a card with a few  *)
(* entries: construction, OpenFile / OpenDirectory (which may fail), the     *)
(* object's operations in any order, any number of Close calls, and          *)
(* destruction.  `hnd.closes` and `hnd.commits` count the backend's close     *)
(* and commit calls made for the File object since its OpenFile.             *)

\* /a holds the directory /a/b and the file /a/f; /a/b holds the file /a/b/g
HandleCard ==
    [p \in PATHS |->
        IF p \in {P_root, P_a, P_a_b} THEN DirEnt
        ELSE IF p = P_a_f THEN FileEnt(<<MaxByte>>)
        ELSE IF p = P_a_b_g THEN FileEnt(<<>>)
        ELSE NoEnt]

FsOpenModes ==
    {{FsOpenMode_Read}, {FsOpenMode_Write}, {FsOpenMode_Read, FsOpenMode_Write}}

FsDirOpenModes ==
    {{FsDirOpenMode_ReadDirs}, {FsDirOpenMode_ReadFiles},
     {FsDirOpenMode_ReadDirs, FsDirOpenMode_ReadFiles}}

\* the number of entries of `calls` that are calls of `name`
CountCalls(calls, name) == Cardinality({i \in DOMAIN calls : calls[i][1] = name})

\* the return of a call on the handle: a call with undefined behaviour ends
\* in any of its outcomes
HandleReturns(c, r, bytes, h) ==
    /\ sd' = r.fs
    /\ rc' \in (IF r.rc = UndefinedBehaviour THEN UB_Outcomes ELSE {r.rc})
    /\ io' = r.io
    /\ out' = bytes
    /\ last' = c
    /\ hnd' = h
    /\ UNCHANGED <<ncalls, hash>>

\* the program runs and the object that the calls are made on is of kind k
Alive(k) == rc # "Crash" /\ hnd.live = k

\* File f; (fs.hpp: the members are value-initialised)
FileConstruct ==
    /\ Alive("none")
    /\ HandleReturns(Call("File", "none", <<>>, <<>>, FALSE), Res(R_OK, sd, <<>>), <<>>,
                     [NoHandle EXCEPT !.live = "file"])

\* fs.cpp:589-611, on an object that was not opened before
FileOpen(b, p, mode, bad) ==
    /\ Alive("file")
    /\ hnd.file = NoFile
    /\ LET r == OpenFile(b, sd, p, mode, bad)
       IN  HandleReturns(Call("OpenFile", b, p, <<>>, FALSE), r, <<>>,
                         [hnd EXCEPT !.file = r.f, !.opened = R_SUCCEEDED(r.rc)])

\* the operation is on an open stream of the stdio backend, where a libc
\* call can fail
OnStream == hnd.file.m_fs = "stdio" /\ hnd.file.open

\* fs.cpp:617-642; the call's record keeps `off` and the length asked for
FileRead(off, n, fault) ==
    /\ Alive("file")
    /\ fault # "none" => OnStream
    /\ LET r == IF OnStream THEN File_Read_stdio(hnd.file, sd, off, n, fault)
                ELSE File_Read(hnd.file, sd, off, n)
       IN  HandleReturns(Call("File::Read", hnd.file.m_fs, hnd.file.path, <<off, n>>, FALSE),
                         r, r.data, [hnd EXCEPT !.file = r.f])

\* fs.cpp:644-664
FileWrite(off, buf, fault) ==
    /\ Alive("file")
    /\ fault # "none" => OnStream
    /\ LET r == IF OnStream THEN File_Write_stdio(hnd.file, sd, off, buf, fault)
                ELSE File_Write(hnd.file, sd, off, buf)
       IN  /\ \A p \in PATHS : Len(r.fs[p].data) <= MaxLen
           /\ HandleReturns(Call("File::Write", hnd.file.m_fs, hnd.file.path, <<>>, FALSE),
                         r, <<>>, [hnd EXCEPT !.file = r.f])

\* fs.cpp:666-678
FileSetSize(sz) ==
    /\ Alive("file")
    /\ LET r == File_SetSize(hnd.file, sd, sz)
       IN  HandleReturns(Call("File::SetSize", hnd.file.m_fs, hnd.file.path, <<>>, FALSE),
                         r, <<>>, [hnd EXCEPT !.file = r.f])

\* fs.cpp:680-692
FileGetSize ==
    /\ Alive("file")
    /\ LET r == File_GetSize(hnd.file, sd)
       IN  HandleReturns(Call("File::GetSize", hnd.file.m_fs, hnd.file.path, <<>>, FALSE),
                         r, <<r.data>>, [hnd EXCEPT !.file = r.f])

\* the handle record after Close, with the backend calls counted
Closed(h, c) ==
    [h EXCEPT !.file = c.f,
              !.closes = @ + CountCalls(c.io, "fsFileClose") + CountCalls(c.io, "fclose"),
              !.commits = @ + CountCalls(c.io, "fsFsCommit")]

\* fs.cpp:694-713
FileClose ==
    /\ Alive("file")
    /\ LET c == File_Close(hnd.file)
       IN  HandleReturns(Call("File::Close", hnd.file.m_fs, hnd.file.path, <<>>, FALSE),
                         Res(R_OK, sd, c.io), <<>>, Closed(hnd, c))

\* fs.cpp:613-615: the destructor calls Close; the object is gone after it
FileDestroy ==
    /\ Alive("file")
    /\ LET c == File_Close(hnd.file)
       IN  HandleReturns(Call("File::~File", hnd.file.m_fs, hnd.file.path, <<>>, FALSE),
                         Res(R_OK, sd, c.io), <<>>,
                         [Closed(hnd, c) EXCEPT !.live = "none"])

\* Dir d;
DirConstruct ==
    /\ Alive("none")
    /\ HandleReturns(Call("Dir", "none", <<>>, <<>>, FALSE), Res(R_OK, sd, <<>>), <<>>,
                     [NoHandle EXCEPT !.live = "dir"])

\* fs.cpp:715-728, on an object that was not opened before
DirOpen(b, p, mode, rev, unk, bad) ==
    /\ Alive("dir")
    /\ hnd.dir = NoDir
    /\ LET r == OpenDirectory(b, sd, p, mode, rev, unk, bad)
       IN  HandleReturns(Call("OpenDirectory", b, p, <<>>, FALSE), Res(r.rc, sd, r.io), <<>>,
                         [hnd EXCEPT !.dir = r.d, !.opened = R_SUCCEEDED(r.rc)])

\* fs.cpp:796-815
DirGetEntryCount ==
    /\ Alive("dir")
    /\ LET r == Dir_GetEntryCount(hnd.dir, sd)
       IN  HandleReturns(Call("Dir::GetEntryCount", hnd.dir.m_fs, hnd.dir.path, <<>>, FALSE),
                         Res(r.rc, sd, r.io), <<r.count>>, [hnd EXCEPT !.dir = r.d])

\* fs.cpp:817-861
DirRead(max_entries) ==
    /\ Alive("dir")
    /\ LET r == Dir_Read(hnd.dir, sd, max_entries)
       IN  HandleReturns(Call("Dir::Read", hnd.dir.m_fs, hnd.dir.path, <<max_entries>>, FALSE),
                         Res(r.rc, sd, r.io), r.entries, [hnd EXCEPT !.dir = r.d])

\* fs.cpp:863-905
DirReadAll ==
    /\ Alive("dir")
    /\ LET r == Dir_ReadAll(hnd.dir, sd)
       IN  HandleReturns(Call("Dir::ReadAll", hnd.dir.m_fs, hnd.dir.path, <<>>, FALSE),
                         Res(r.rc, sd, r.io), r.entries, [hnd EXCEPT !.dir = r.d])

\* fs.cpp:907-923
DirClose ==
    /\ Alive("dir")
    /\ LET c == Dir_Close(hnd.dir)
       IN  HandleReturns(Call("Dir::Close", hnd.dir.m_fs, hnd.dir.path, <<>>, FALSE),
                         Res(R_OK, sd, c.io), <<>>, [hnd EXCEPT !.dir = c.d])

\* fs.cpp:792-794: the destructor calls Close; the object is gone after it
DirDestroy ==
    /\ Alive("dir")
    /\ LET c == Dir_Close(hnd.dir)
       IN  HandleReturns(Call("Dir::~Dir", hnd.dir.m_fs, hnd.dir.path, <<>>, FALSE),
                         Res(R_OK, sd, c.io), <<>>,
                         [hnd EXCEPT !.dir = c.d, !.live = "none"])

\* fs.cpp:737-790, called before any File or Dir object is made
FsDirGetEntryCount(b, p, mode, rev, unk, nostat) ==
    /\ Alive("none")
    /\ hnd = NoHandle
    /\ LET r == Fs_DirGetEntryCount(b, sd, p, mode, rev, unk, nostat)
       IN  HandleReturns(Call("DirGetEntryCount", b, p, <<>>, FALSE), Res(r.rc, sd, r.io),
                         <<r.count>>, hnd)

HandleFiles == {P_a_f, P_a_b_c}
HandleDirs == {P_a, P_a_b_c}

InitHandle == sd = HandleCard /\ Fresh

NextHandle ==
    \/ FileConstruct
    \/ \E b \in Backends, p \in HandleFiles, mode \in FsOpenModes, bad \in {{}, {P_a_f}} :
          FileOpen(b, p, mode, bad)
    \/ \E off \in 0..1, n \in 0..MaxLen, fault \in StdioFaults : FileRead(off, n, fault)
    \/ \E off \in 0..1, buf \in {<<>>, <<0>>}, fault \in StdioFaults :
          FileWrite(off, buf, fault)
    \/ \E sz \in 0..MaxLen : FileSetSize(sz)
    \/ FileGetSize
    \/ FileClose
    \/ FileDestroy
    \/ DirConstruct
    \/ \E b \in Backends, p \in HandleDirs, mode \in FsDirOpenModes, rev \in BOOLEAN,
          unk \in {{}, {P_a_f}}, bad \in {{}, {P_a}} :
          DirOpen(b, p, mode, rev, unk, bad)
    \/ DirGetEntryCount
    \/ \E max_entries \in 0..MaxLen : DirRead(max_entries)
    \/ DirReadAll
    \/ DirClose
    \/ DirDestroy
    \/ \E b \in Backends, p \in HandleDirs, mode \in FsDirOpenModes,
          unk \in {{}, {P_a_f}}, nostat \in {{}, {P_a_f}} :
          FsDirGetEntryCount(b, p, mode, FALSE, unk, nostat)

SpecHandle == InitHandle /\ [][NextHandle]_vars

\* the object the last call was made on was never opened with success
NeverOpened == ~hnd.opened

HandleOps ==
    {"File::Read", "File::Write", "File::SetSize", "File::GetSize",
     "Dir::GetEntryCount", "Dir::Read", "Dir::ReadAll"}

\* C14: every operation on a File or Dir object that was never successfully
\* opened returns Result_FsNotActive, and makes no backend call.
C14_NeverOpenedIsNotActive ==
    [][(last'.op \in HandleOps /\ NeverOpened)
       => (rc' = Result_FsNotActive /\ io' = <<>>)]_vars

\* the File object was destroyed by the last call
FileGone == last.op = "File::~File" /\ hnd.live = "none"

\* the positions of the calls of `name` in the backend calls of the last call
CallsAt(name) == {i \in DOMAIN io : io[i][1] = name}

\* C15: over any number of Close calls followed by destruction, the file of a
\* successfully opened File is closed exactly once (never otherwise), and a
\* commit is issued exactly once, right after that close, if and only if the
\* handle is native and was opened with Write capability.
C15_CloseIsIdempotent ==
    /\ hnd.closes <= 1
    /\ hnd.commits <= hnd.closes
    /\ ~hnd.opened => hnd.closes = 0
    /\ FileGone =>
          /\ hnd.closes = (IF hnd.opened THEN 1 ELSE 0)
          /\ hnd.commits = (IF /\ hnd.opened
                               /\ last.backend = "native"
                               /\ FsOpenMode_Write \in hnd.file.m_mode
                            THEN 1 ELSE 0)
    /\ \A i \in CallsAt("fsFsCommit") :
          last.op \in {"File::Close", "File::~File"} => i > 1 /\ io[i - 1][1] = "fsFileClose"

\* a File opened for writing was closed by an explicit Close and then
\* destroyed, and the destructor closed nothing
C15_Witness ==
    /\ FileGone
    /\ hnd.opened
    /\ hnd.closes = 1
    /\ io = <<>>
    /\ \/ hnd.commits = 1
       \/ last.backend = "stdio" /\ FsOpenMode_Write \in hnd.file.m_mode

----------------------------------------------------------------------------
(* SpecWalk: CreateDirectoryRecursively and                                 *)
(* CreateDirectoryRecursivelyWithPath on cards that hold a part of the      *)
(* chain /a, /a/b, /a/b/c, with at most one path on which mkdir fails       *)

\* the cards that hold a part of the chain; /a/b may be a file
WalkCards ==
    {c \in [PATHS -> {NoEnt, DirEnt, FileEnt(<<>>)}] :
        /\ c[P_root] = DirEnt
        /\ \A p \in PATHS \ {P_root, P_a, P_a_b, P_a_b_c} : c[p] = NoEnt
        /\ c[P_a] # FileEnt(<<>>) /\ c[P_a_b_c] # FileEnt(<<>>)
        /\ c[P_a_b] # NoEnt => c[P_a] = DirEnt
        /\ c[P_a_b_c] # NoEnt => c[P_a_b] = DirEnt}

WalkFaults == {{}, {P_a}, {P_a_b}, {P_a_b_c}}

InitWalk == sd \in WalkCards /\ Fresh

NextWalk ==
    \/ \E b \in Backends, p \in {P_a_b_c, P_a_b}, bad \in WalkFaults :
          FsCreateDirectoryRecursively(b, p, FALSE, bad) /\ UNCHANGED ncalls
    \/ \E b \in Backends, p \in {P_a_b_c, P_a_b_g, P_hbmenu, P_noslash},
          bad \in WalkFaults :
          FsCreateDirectoryRecursivelyWithPath(b, p, FALSE, bad) /\ UNCHANGED ncalls
    \/ \E b \in Backends, p \in {P_a_b_c, P_a_b} :
          FsDeleteDirectory(b, p, FALSE, {}) /\ UNCHANGED ncalls

SpecWalk == InitWalk /\ [][NextWalk]_vars

\* the directories above p, the root excluded
AncestorsOf(p) == {SubSeq(p, 1, i - 1) : i \in {j \in 2..Len(p) : p[j] = "/"}}

\* the k-th segment of p, counted from the root: /a, /a/b, ... , p
KthSegment(p, k) ==
    CHOOSE q \in AncestorsOf(p) \cup {p} :
        Cardinality({r \in AncestorsOf(p) \cup {p} : Len(r) < Len(q)}) = k - 1

\* the calls of `log` that create a directory
MkdirCalls(log) == SelectSeq(log, LAMBDA c : c[1] \in {"mkdir", "fsFsCreateDirectory"})

\* the error a failed mkdir / fsFsCreateDirectory surfaces as
MkdirError(b) == IF b = "native" THEN FsError_Other ELSE Result_FsUnknownStdioError

\* C16: the walk of CreateDirectoryRecursively (the calls after its first
\* attempt on the whole path) visits the segments from the shallowest to the
\* deepest; it continues past a segment that already exists; a segment that
\* fails otherwise ends the walk, its error is returned, and the segments
\* created before it stay.
C16_WalkShallowToDeep ==
    [][(last'.op = "CreateDirectoryRecursively" /\ Len(MkdirCalls(io')) > 1)
       => LET walk == Tail(MkdirCalls(io'))
              n == Len(walk)
              p == last'.path
              made == {walk[i][2] : i \in {j \in 1..n : walk[j][3] = "ok"}}
          IN  /\ \A i \in 1..n : walk[i][2] = KthSegment(p, i)
              /\ \A i \in 1..(n - 1) : walk[i][3] \in {"ok", "exists"}
              /\ walk[n][3] \in {"ok", "exists"}
                    => n = Cardinality(AncestorsOf(p)) + 1 /\ rc' = R_OK
              /\ walk[n][3] = "fail" => rc' = MkdirError(last'.backend)
              /\ \A q \in PATHS : sd'[q] = (IF q \in made THEN DirEnt ELSE sd[q])]_vars

\* the walk to /a/b/c created /a and failed at /a/b, which is the last call
C16_Witness ==
    /\ last.op = "CreateDirectoryRecursively"
    /\ last.path = P_a_b_c
    /\ rc = MkdirError(last.backend)
    /\ Len(MkdirCalls(io)) = 3
    /\ MkdirCalls(io)[2] = IoCall(IF last.backend = "native" THEN "fsFsCreateDirectory"
                                  ELSE "mkdir", P_a, "ok")
    /\ MkdirCalls(io)[3][2] = P_a_b
    /\ MkdirCalls(io)[3][3] = "fail"
    /\ IsDir(sd, P_a)
    /\ ~Exists(sd, P_a_b)

\* C17: CreateDirectoryRecursivelyWithPath(p) creates nothing but directories
\* above p, and when it succeeds every directory above p exists; the entry
\* at p is as it was; for a p without '/' it returns success and makes no
\* backend call.
C17_WithPathCreatesAncestorsOnly ==
    [][(last'.op = "CreateDirectoryRecursivelyWithPath" /\ last' # last)
       => LET p == last'.path
          IN  /\ \A q \in PATHS :
                    sd'[q] # sd[q] => (q \in AncestorsOf(p) /\ sd[q] = NoEnt /\ sd'[q] = DirEnt)
              /\ rc' = R_OK => \A q \in AncestorsOf(p) : Exists(sd', q)
              /\ \A i \in DOMAIN io' : io'[i][2] # p
              /\ (\A i \in DOMAIN p : p[i] # "/") => (rc' = R_OK /\ io' = <<>>)]_vars

\* the call for /a/b/c on the card that holds only the root made /a and /a/b
C17_Witness ==
    /\ last.op = "CreateDirectoryRecursivelyWithPath"
    /\ last.path = P_a_b_c
    /\ rc = R_OK
    /\ IsDir(sd, P_a) /\ IsDir(sd, P_a_b) /\ ~Exists(sd, P_a_b_c)
    /\ Len(MkdirCalls(io)) = 3

\* the bytes of the source of the computation in progress
SourceBytes == IF hash.source.kind = "mem" THEN hash.source.m_data ELSE FileBytes(hash.source)

\* C18: in a hash computation, the first chunk is read at offset 0, every
\* chunk handed to Update is the source's bytes from the running offset on,
\* the running offset (which the progress callback is given) never
\* decreases and grows with every chunk, and when the computation returns
\* success the offset has reached Size and the chunks fed, in order, are the
\* source's bytes [0, Size).
C18_ChunksInOrder ==
    [][/\ (hash.pc = "size" /\ hash'.pc = "transfer")
          => (hash'.off = 0 /\ hash'.ctx.fed = <<>>)
       /\ (hash.pc = "transfer" /\ hash'.pc \in {"transfer", "done"})
          => /\ hash'.off >= hash.off
             /\ Len(hash.ctx.fed) = hash.off
             /\ hash'.off <= Len(SourceBytes)
             /\ hash'.ctx.fed = hash.ctx.fed \o SubSeq(SourceBytes, hash.off + 1, hash'.off)
             /\ hash'.ctx.fed # hash.ctx.fed => hash'.off > hash.off
             /\ (hash'.pc = "done" /\ hash'.rc = R_OK)
                   => /\ hash'.off = hash.file_size
                      /\ hash.file_size = Len(SourceBytes)
                      /\ hash'.ctx.fed = SourceBytes]_vars

\* a computation over a source of more than one chunk, with two different
\* bytes, returned success
C18_Witness ==
    /\ hash.pc = "done"
    /\ hash.rc = R_OK
    /\ Len(SourceBytes) > MaxChunk
    /\ \E i, j \in DOMAIN SourceBytes : SourceBytes[i] # SourceBytes[j]
    /\ hash.ctx.fed = SourceBytes
    /\ hash.off = Len(SourceBytes)

\* the file of the source of the computation in progress does not exist, so
\* its open failed
OpenFailed ==
    /\ hash.pc # "idle"
    /\ hash.source.kind = "file"
    /\ ~IsFile(sd, hash.source.m_file.path)

\* the error a failed fsFsOpenFile / fopen surfaces as
OpenError == IF hash.source.m_file.m_fs = "native" THEN FsError_Other
             ELSE Result_FsUnknownStdioError

\* C19: when the file-backed source failed to open its file, every Size and
\* Read call on it returns the open error and leaves the source as it is,
\* Read reports 0 bytes, and the computation returns the open error without
\* an Update and without a Get.
C19_FailedOpenIsSticky ==
    OpenFailed =>
        /\ hash.source.m_open_result = OpenError
        /\ LET s == FileSource_Size(hash.source, sd)
           IN  s.rc = OpenError /\ s.source = hash.source
        /\ \A off \in 0..MaxLen, size \in 0..MaxLen, fault \in BOOLEAN :
              LET r == FileSource_Read(hash.source, sd, off, size, fault)
              IN  r.rc = OpenError /\ r.size = 0 /\ r.data = <<>> /\ r.source = hash.source
        /\ hash.pc # "transfer"
        /\ hash.ctx.fed = <<>>
        /\ hash.gets = 0
        /\ hash.out = StaleOut
        /\ hash.pc = "done" => hash.rc = OpenError

\* the computation over /a/f, which the card does not hold, has returned
C19_Witness ==
    /\ OpenFailed
    /\ hash.pc = "done"
    /\ hash.source.m_file.path = P_a_f
    /\ hash.source.m_file.m_fs = "stdio"
    /\ hash.rc = Result_FsUnknownStdioError

----------------------------------------------------------------------------
(* SpecMem: Size and Read of a memory-backed source, hasher.cpp:49-77, for  *)
(* every span, offset and size of the bounds; `out` holds the arguments of  *)
(* the last call and what it returned                                       *)

\* s64 off: below, inside and beyond the span
MemOffsets == (0 - 1)..(MaxLen + 1)

\* s64 size: the transfer loop asks for no negative size
MemSizes == 0..(MaxLen + 1)

InitMem == sd = EmptyCard /\ Fresh

\* hasher.cpp:52-55
MemSize(data) ==
    /\ LET r == MemSource_Size(MemSource(data))
       IN  Returns(Call("MemSource::Size", "none", <<>>, <<>>, FALSE), Res(r.rc, sd, <<>>),
                   [data |-> data, off |-> 0, size |-> 0, n |-> r.size, bytes |-> r.data])
    /\ UNCHANGED ncalls

\* hasher.cpp:57-73
MemRead(data, off, size) ==
    /\ LET r == MemSource_Read(MemSource(data), off, size)
       IN  Returns(Call("MemSource::Read", "none", <<>>, <<>>, FALSE), Res(r.rc, sd, <<>>),
                   [data |-> data, off |-> off, size |-> size, n |-> r.size, bytes |-> r.data])
    /\ UNCHANGED ncalls

NextMem ==
    \/ \E data \in Contents : MemSize(data)
    \/ \E data \in Contents, off \in MemOffsets, size \in MemSizes : MemRead(data, off, size)

SpecMem == InitMem /\ [][NextMem]_vars

\* C20: MemSource::Read never fails; for a span of n bytes it reports
\* min(size, n - off) bytes when 0 <= off < n, which are the span's bytes
\* from off on, and 0 bytes when off < 0 or off >= n; Size reports n.
C20_MemSourceReadClamps ==
    /\ last.op = "MemSource::Size" => (rc = R_OK /\ out.n = Len(out.data))
    /\ last.op = "MemSource::Read" =>
          LET n == Len(out.data)
              want == IF out.off >= 0 /\ out.off < n
                      THEN (IF out.size < n - out.off THEN out.size ELSE n - out.off)
                      ELSE 0
          IN  /\ rc = R_OK
              /\ out.n = want
              /\ Len(out.bytes) = want
              /\ \A i \in 1..want : out.bytes[i] = out.data[out.off + i]

\* a read that asks for more than the span holds behind the offset
C20_Witness ==
    /\ last.op = "MemSource::Read"
    /\ out.off = 1
    /\ Len(out.data) = MaxLen
    /\ out.size > Len(out.data) - out.off
    /\ out.n = Len(out.data) - out.off

----------------------------------------------------------------------------
(* The digest strings, hasher.cpp:85-189: Get writes two characters of      *)
(* "0123456789abcdef" per byte of the digest.  SpecHex finalizes every      *)
(* algorithm on digests whose bytes start anywhere in 0..255 and grow by a  *)
(* fixed stride.                                                            *)

\* greatest stride between consecutive digest bytes
MaxStride == 2

\* const char* hex = "0123456789abcdef"
hex == <<"0", "1", "2", "3", "4", "5", "6", "7", "8", "9", "a", "b", "c", "d", "e", "f">>

\* sizeof(m_seed), u32
SeedSize == 4

\* unsigned char hash[16]
Md5HashSize == 16

SHA1_HASH_SIZE == 20

SHA256_HASH_SIZE == 32

\* str[i * 2] = hex[(byte >> 4) & 0xF]; str[i * 2 + 1] = hex[byte & 0xF]
HexByte(byte) == <<hex[((byte \div 16) % 16) + 1], hex[(byte % 16) + 1]>>

\* the loop over the bytes of the digest
RECURSIVE HexLoop(_)
HexLoop(bytes) ==
    IF bytes = <<>> THEN <<>> ELSE HexByte(Head(bytes)) \o HexLoop(Tail(bytes))

\* (m_seed >> shift) & 0xFF for a u32 held as its two 16-bit halves (the
\* checker's integers end below 2^31) and a shift of whole bytes
ShiftAndMask(m_seed, shift) ==
    IF shift >= 16 THEN (m_seed.hi \div 2^(shift - 16)) % 256
    ELSE (m_seed.lo \div 2^shift) % 256

\* HashCrc32::Get that takes the bytes of m_seed from the least significant on
HashCrc32_Get_lsbFirst(m_seed) ==
    HexLoop([i \in 1..SeedSize |-> ShiftAndMask(m_seed, (i - 1) * 8)])

\* hasher.cpp:90-100: byte i is (m_seed >> ((sizeof(m_seed) - 1 - i) * 8)) & 0xFF
HashCrc32_Get(m_seed) ==
    HexLoop([i \in 1..SeedSize |-> ShiftAndMask(m_seed, (SeedSize - i) * 8)])

\* hasher.cpp:120-133, 148-161 and 176-189
HashDigest_Get(digest) == HexLoop(digest)

\* the size of the digest that the library hands to Get
DigestSize(type) ==
    IF type = "Crc32" THEN SeedSize
    ELSE IF type = "Md5" THEN Md5HashSize
    ELSE IF type = "Sha1" THEN SHA1_HASH_SIZE
    ELSE SHA256_HASH_SIZE

\* the digest whose bytes start at `b` and grow by `a`
Digest(type, b, a) == [i \in 1..DigestSize(type) |-> (b + a * (i - 1)) % 256]

\* the u32 whose bytes, most significant first, are `bytes`
SeedOf(bytes) == [hi |-> bytes[1] * 2^8 + bytes[2], lo |-> bytes[3] * 2^8 + bytes[4]]

InitHex == sd = EmptyCard /\ Fresh

\* Get on a newly made algorithm whose state finalizes to the digest
HashGet(type, b, a) ==
    /\ last = NoCall
    /\ LET d == Digest(type, b, a)
       IN  Returns(Call("HashSource::Get", "none", <<>>, <<>>, FALSE), Res(R_OK, sd, <<>>),
                   [type |-> type, digest |-> d,
                    str |-> IF type = "Crc32" THEN HashCrc32_Get(SeedOf(d))
                            ELSE HashDigest_Get(d)])
    /\ UNCHANGED ncalls

NextHex == \E type \in HashTypes, b \in 0..255, a \in 0..MaxStride : HashGet(type, b, a)

SpecHex == InitHex /\ [][NextHex]_vars

\* the value of a hexadecimal digit, 16 for any other character
HexValue(ch) ==
    IF ch \in {hex[k] : k \in 1..16} THEN (CHOOSE k \in 1..16 : hex[k] = ch) - 1 ELSE 16

\* the number that the characters of `s` from position i on denote, with
\* `acc` the number denoted by the characters before
RECURSIVE HexNumber(_, _, _)
HexNumber(s, i, acc) ==
    IF i > Len(s) THEN acc ELSE HexNumber(s, i + 1, acc * 16 + HexValue(s[i]))

\* C21: the string Get leaves has twice as many characters as the digest has
\* bytes (8, 32, 40, 64), each one of 0-9 a-f; characters 2i-1 and 2i are
\* byte i of the digest, zero-padded; the checksum's string read as one
\* hexadecimal number is the checksum: its most significant byte comes first
\* (checked on the upper and the lower half of the checksum).
C21_DigestStringIsFixedLengthHex ==
    last.op = "HashSource::Get" =>
        /\ Len(out.str) = (CASE out.type = "Crc32" -> 8 [] out.type = "Md5" -> 32
                             [] out.type = "Sha1" -> 40 [] out.type = "Sha256" -> 64)
        /\ Len(out.str) = 2 * Len(out.digest)
        /\ \A i \in DOMAIN out.str : HexValue(out.str[i]) < 16
        /\ \A i \in DOMAIN out.digest :
              16 * HexValue(out.str[2 * i - 1]) + HexValue(out.str[2 * i]) = out.digest[i]
        /\ out.type = "Crc32" =>
              /\ HexNumber(SubSeq(out.str, 1, 4), 1, 0) = SeedOf(out.digest).hi
              /\ HexNumber(SubSeq(out.str, 5, 8), 1, 0) = SeedOf(out.digest).lo

\* the checksum 0x090b0d0f was finalized: every byte needs its leading zero
C21_Witness ==
    /\ last.op = "HashSource::Get"
    /\ out.type = "Crc32"
    /\ SeedOf(out.digest) = [hi |-> 9 * 2^8 + 11, lo |-> 13 * 2^8 + 15]
    /\ out.str = <<"0", "9", "0", "b", "0", "d", "0", "f">>

\* the last call was on an open File of the stdio backend
OnOpenStream(op) ==
    /\ last.op = op
    /\ last.backend = "stdio"
    /\ hnd.live = "file"
    /\ hnd.file.open

\* C23: for an open File of the stdio backend, after any Read or Write,
\* successful or failed, the tracked offset m_stdio_off is the position of
\* the stream.
C23_TrackedOffsetIsPosition ==
    (OnOpenStream("File::Read") \/ OnOpenStream("File::Write"))
        => hnd.file.m_stdio_off = hnd.file.pos

\* C22: File::Read on an open File of the stdio backend never reports more
\* bytes than were asked for, and when it returns success with fewer, the
\* stream is at the end of the file: no byte of the file is left to read.
C22_ShortReadOnlyAtEndOfStream ==
    [][(/\ last'.op = "File::Read"
        /\ last'.backend = "stdio"
        /\ hnd.file.open
        /\ hnd' # hnd \/ last' # last)
       => /\ Len(out') <= last'.dst[2]
          /\ (rc' = R_OK /\ Len(out') < last'.dst[2])
                => hnd'.file.pos >= Len(sd'[last'.path].data)]_vars

\* the entries of the directory that the mode selects
VisibleUnder(fs, path, mode) ==
    {q \in Children(fs, path) :
        \/ IsDir(fs, q) /\ FsDirOpenMode_ReadDirs \in mode
        \/ IsFile(fs, q) /\ FsDirOpenMode_ReadFiles \in mode}

\* C24: GetEntryCount on an open directory handle returns the number of
\* entries that the handle's mode selects, which is the number of entries a
\* ReadAll that follows on the handle returns.
C24_CountIsWhatReadAllReturns ==
    [][(/\ last'.op = "Dir::GetEntryCount"
        /\ hnd.dir.open
        /\ hnd.dir.pos = 0
        /\ last' # last \/ out' # out)
       => /\ rc' = R_OK
          /\ out'[1] = Cardinality(VisibleUnder(sd, last'.path, hnd.dir.m_mode))
          /\ out'[1] = Len(Dir_ReadAll(hnd'.dir, sd').entries)]_vars

\* C25: Dir::Read(max) on an open directory handle returns, stores at most
\* max entries and reports their number.
C25_ReadStoresAtMostMax ==
    [][(/\ last'.op = "Dir::Read"
        /\ hnd.dir.open
        /\ hnd' # hnd \/ last' # last \/ rc' # rc \/ out' # out)
       => (rc' = R_OK /\ Len(out') <= last'.dst[1])]_vars

\* the entries that calls of Dir::Read(max) yield until one yields none
RECURSIVE Drain(_, _, _, _)
Drain(d, fs, max, acc) ==
    LET r == Dir_Read(d, fs, max)
    IN  IF r.rc # R_OK \/ r.entries = <<>> THEN acc
        ELSE Drain(r.d, fs, max, acc \o r.entries)

\* the elements of a sequence
Range(s) == {s[i] : i \in DOMAIN s}

\* C26: for a directory handle of the stdio backend that has just been
\* opened, the entries that draining Dir::Read yields are the entries that
\* ReadAll returns, and their files and directories are as many as
\* DirGetEntryCount counts for the same directory and mode, whether or not
\* an entry's d_type is unknown.
C26_UnknownTypeTreatedAlike ==
    (/\ last.op = "OpenDirectory"
     /\ last.backend = "stdio"
     /\ hnd.live = "dir"
     /\ hnd.dir.open)
    => LET all == Range(Dir_ReadAll(hnd.dir, sd).entries)
           drained == Range(Drain(hnd.dir, sd, 1, <<>>))
           unk == {hnd.dir.stream[i].name :
                      i \in {j \in DOMAIN hnd.dir.stream :
                                hnd.dir.stream[j].d_type = "DT_UNKNOWN"}}
           n == Fs_DirGetEntryCount("stdio", sd, hnd.dir.path, hnd.dir.m_mode,
                                    FALSE, unk, {}).count
       IN  /\ drained = all
           /\ n.file_count = Cardinality({e \in all : e.type = FsDirEntryType_File})
           /\ n.dir_count = Cardinality({e \in all : e.type = FsDirEntryType_Dir})


----------------------------------------------------------------------------
(* Copy of a whole file, checked under Spec                                 *)

\* read_entire_file and write_entire_file of a backend
ReadOf(b, fs, p) ==
    IF b = "native" THEN read_entire_file_native(fs, p, {})
    ELSE read_entire_file_stdio(fs, p, {})

WriteOf(b, fs, p, in, ig) ==
    IF b = "native" THEN write_entire_file_native(fs, p, in, ig, {})
    ELSE write_entire_file_stdio(fs, p, in, ig, {})

\* C27: copy_entire_file(dst, src) checks the policy on dst before it reads
\* src; when the policy lets it pass and src is read, it returns what
\* write_entire_file(dst, the bytes read) returns and leaves the card as that
\* write leaves it; after a successful copy dst holds what src holds and src
\* is what it was; when reading src fails, that error is returned and the
\* card is unchanged.
C27_CopyIsWriteOfRead ==
    [][(last'.op = "copy_entire_file" /\ ncalls' # ncalls)
       => LET b == last'.backend
              dst == last'.path
              src == last'.dst
              ig == last'.ignore
              r == ReadOf(b, sd, src)
              w == WriteOf(b, sd, dst, r.out, ig)
          IN  /\ (~ig /\ is_read_only(dst))
                    => (rc' = Result_FsReadOnly /\ io' = <<>> /\ sd' = sd)
              /\ ((ig \/ ~is_read_only(dst)) /\ R_FAILED(r.rc))
                    => (rc' = r.rc /\ io' = r.io /\ sd' = sd)
              /\ ((ig \/ ~is_read_only(dst)) /\ ~R_FAILED(r.rc))
                    => (rc' = w.rc /\ sd' = w.fs /\ io' = r.io \o w.io)
              /\ rc' = R_OK
                    => /\ IsFile(sd', dst)
                       /\ sd'[dst].data = sd[src].data
                       /\ sd'[src].kind = sd[src].kind
                       /\ sd'[src].data = sd[src].data]_vars

\* a copy has replaced what a longer file held by what a shorter one holds
C27_Witness ==
    /\ last.op = "copy_entire_file"
    /\ rc = R_OK
    /\ last.path = P_hbmenu
    /\ last.dst = P_backup_s
    /\ sd[P_hbmenu].data = <<1>>
    /\ sd[P_backup_s].data = <<1>>


----------------------------------------------------------------------------
(* SpecDeny: the policy asked about every path of the deny lists, about     *)
(* paths below and beside them, and recursive deletes without the override  *)
(* on a card that holds protected and unprotected entries                   *)

\* the entries of both lists
DenyEntries == ProtectedPrefixes \cup ExactList

\* the lists' entries, a name that continues an entry, an entry's child and
\* grandchild, and the paths of the card
DenyPaths ==
    PATHS \cup DenyEntries
          \cup {e \o <<"x">> : e \in DenyEntries \ {P_root}}
          \cup {e \o <<"/", "x">> : e \in DenyEntries \ {P_root}}
          \cup {e \o <<"/", "x", "/", "y">> : e \in DenyEntries \ {P_root}}

\* the used card with a tree of the user's own under /a
DenyCard ==
    [p \in PATHS |->
        IF p = P_a_b THEN DirEnt
        ELSE IF p = P_a_f THEN FileEnt(<<MaxByte>>)
        ELSE IF p = P_a_b_g THEN FileEnt(<<>>)
        ELSE UsedCard[p]]

\* the proper ancestor directories of p, "/" included
ProperAncestors(p) == IF p = P_root THEN {} ELSE AncestorsOf(p) \cup {P_root}

\* fs.cpp:88-96 asked about p and about each of its ancestors
IsReadOnly(p) ==
    Returns(Call("is_read_only", "none", p, <<>>, FALSE), Res(R_OK, sd, <<>>),
            <<is_read_only(p), {a \in ProperAncestors(p) : is_read_only(a)}>>)

InitDeny == sd = DenyCard /\ Fresh

NextDeny ==
    \/ \E p \in DenyPaths : IsReadOnly(p) /\ UNCHANGED ncalls
    \/ \E b \in Backends, p \in {q \in PATHS : IsDir(DenyCard, q)} :
          FsDeleteDirectoryRecursively(b, p, FALSE, {}, {}, FALSE) /\ UNCHANGED ncalls

SpecDeny == InitDeny /\ [][NextDeny]_vars

\* C28: whenever is_read_only holds of a path it holds of every proper
\* ancestor directory of the path, "/" included; and a
\* DeleteDirectoryRecursively without the override leaves every protected
\* entry of the card as it was.
C28_DenyListsClosedUnderAncestors ==
    [][/\ (last'.op = "is_read_only" /\ last' # last /\ out'[1])
            => out'[2] = ProperAncestors(last'.path)
       /\ (last'.op = "DeleteDirectoryRecursively" /\ ~last'.ignore
             /\ (sd' # sd \/ last' # last))
            => \A p \in PATHS : (is_read_only(p) /\ Exists(sd, p)) => sd'[p] = sd[p]]_vars

\* the policy was asked about a grandchild of a protected folder whose own
\* parent is on the exact list only
C28_Witness ==
    /\ last.op = "is_read_only"
    /\ last.path = READONLY_ROOT_FOLDERS[1] \o <<"/", "x", "/", "y">>
    /\ out[1]
    /\ Cardinality(out[2]) = 4
    /\ READONLY_FILES[2] \in out[2]
    /\ ~is_read_only_root(READONLY_FILES[2])


\* C29: whenever CreateDirectoryRecursively(p) returns success, p is a
\* directory afterwards, whatever the card held before, a regular file at p
\* or at an ancestor of p included.
C29_SuccessMeansDirectory ==
    [][(/\ last'.op = "CreateDirectoryRecursively"
        /\ rc' = R_OK
        /\ (last' # last \/ sd' # sd \/ io' # io))
       => IsDir(sd', last'.path)]_vars


----------------------------------------------------------------------------
(* DownloadApp, ghdl.cpp:102-142.  The card's /a stands for the cache      *)
(* folder /switch/sphaira/cache/github: it exists and is on no list.  The  *)
(* download, the progress box and the archive extraction are outside the   *)
(* sources and enter as inputs.                                            *)

Result_GhdlEmptyAsset == "Result_GhdlEmptyAsset"
Result_GhdlFailedToDownloadAsset == "Result_GhdlFailedToDownloadAsset"

\* ghdl.cpp:103
temp_file == P_a_f

\* what the asset holds
Asset == <<MaxByte>>

\* ghdl.cpp:116-120, curl::Api().ToFile: a successful download leaves the
\* asset in the file; a failed one leaves the file as it was or a part of it
ToFile(fs, path, success, partial) ==
    IF success THEN [fs EXCEPT ![path] = FileEnt(Asset)]
    ELSE IF partial THEN [fs EXCEPT ![path] = FileEnt(<<>>)]
    ELSE fs

\* ghdl.cpp:133, thread::TransferUnzipAll: fails without the archive, when
\* the progress box signals exit, or when root_path is no directory; else it
\* writes the archive's file below root_path or fails on the way
TransferUnzipAll(fs, should_exit, archive, root_path, unzip_ok) ==
    IF should_exit \/ ~IsFile(fs, archive) \/ ~IsDir(fs, root_path) \/ ~unzip_ok
    THEN Res(FsError_Other, fs, <<>>)
    ELSE Res(R_OK,
             [p \in DOMAIN fs |->
                IF p = P_a_b_g /\ Parent(p) = root_path THEN FileEnt(fs[archive].data)
                ELSE fs[p]],
             <<>>)

\* ghdl.cpp:107, ON_SCOPE_EXIT(fs.DeleteFile(temp_file)): runs on every
\* return that follows it
ScopeExit(r, ignore_read_only) ==
    LET d == DeleteFile_native(r.fs, temp_file, ignore_read_only, {})
    IN  Res(r.rc, d.fs, r.io \o d.io)

\* ghdl.cpp:102-142; ignore_read_only is what the FsNativeSd object was
\* built with
DownloadApp(fs, open_ok, url_empty, should_exit, success, partial, is_zip, root_path, ignore_read_only, unzip_ok) ==
    IF ~open_ok THEN Res(FsError_Other, fs, <<>>)
    ELSE IF url_empty THEN ScopeExit(Res(Result_GhdlEmptyAsset, fs, <<>>), ignore_read_only)
    ELSE LET got == IF should_exit THEN fs ELSE ToFile(fs, temp_file, success, partial)
         IN  IF ~should_exit /\ ~success
             THEN ScopeExit(Res(Result_GhdlFailedToDownloadAsset, got, <<>>), ignore_read_only)
             ELSE IF is_zip
             THEN ScopeExit(TransferUnzipAll(got, should_exit, temp_file, root_path, unzip_ok),
                            ignore_read_only)
             ELSE LET c == CreateDirectoryRecursivelyWithPath("native", got, root_path,
                                                              ignore_read_only, {})
                      d == DeleteFile_native(c.fs, root_path, ignore_read_only, {})
                      r == RenameFile_native(d.fs, temp_file, root_path, ignore_read_only, {})
                  IN  ScopeExit(Res(r.rc, r.fs, c.io \o d.io \o r.io), ignore_read_only)

\* the call, with what its environment did: whether the file system opened
\* and whether the asset was downloaded in this call
FsDownloadApp(open_ok, url_empty, should_exit, success, partial, is_zip, root_path, ig, unzip_ok) ==
    Returns(Call("DownloadApp", "native", root_path, <<>>, ig),
            DownloadApp(sd, open_ok, url_empty, should_exit, success, partial, is_zip,
                        root_path, ig, unzip_ok),
            <<[opened |-> open_ok,
               downloaded |-> open_ok /\ ~url_empty /\ ~should_exit /\ success]>>)

\* "/", "/a" and "/a/b" exist; an earlier version is installed at /a/b/g or
\* not; a temp file is left from an interrupted run or not
DownloadCards ==
    {[p \in PATHS |->
        IF p \in {P_root, P_a, P_a_b} THEN DirEnt
        ELSE IF p = P_a_b_g /\ installed THEN FileEnt(<<0>>)
        ELSE IF p = temp_file /\ stale THEN FileEnt(<<>>)
        ELSE NoEnt] : installed \in BOOLEAN, stale \in BOOLEAN}

\* entry->path, or "/" without one
RootPaths == {P_root, P_a_b, P_a_b_g}

InitDownload == sd \in DownloadCards /\ Fresh

NextDownload ==
    \E open_ok \in BOOLEAN, url_empty \in BOOLEAN, should_exit \in BOOLEAN,
       success \in BOOLEAN, partial \in BOOLEAN, is_zip \in BOOLEAN,
       root_path \in RootPaths, ig \in BOOLEAN, unzip_ok \in BOOLEAN :
        /\ FsDownloadApp(open_ok, url_empty, should_exit, success, partial, is_zip,
                         root_path, ig, unzip_ok)
        /\ UNCHANGED ncalls

SpecDownload == InitDownload /\ [][NextDownload]_vars

\* C30: a call of DownloadApp that did not download the asset, because the
\* progress box signalled exit before the download or because the download
\* failed, leaves what is installed at the destination as it was; and when
\* the file system was opened, no temp file is left when the call returns.
C30_DestinationChangesOnlyAfterDownload ==
    [][(last'.op = "DownloadApp")
       => /\ ~out'[1].downloaded => sd'[last'.path] = sd[last'.path]
          /\ out'[1].opened => ~Exists(sd', temp_file)]_vars

====
